---- MODULE Spec2Model ----
(***************************************************************************)
(* pygwt: worktree resolution and lifecycle.                               *)
(*                                                                         *)
(* Names of branches and filesystem paths are sequences of path segments:  *)
(* the branch "origin/feat" is <<"origin", "feat">>, f"origin/{name}" is   *)
(* <<"origin">> \o name, and root.joinpath(name) is root \o name.          *)
(* An absent optional value (Python None) is the empty sequence.           *)
(***************************************************************************)
EXTENDS FiniteSets, Integers, Sequences, TLC

VARIABLES
    is_bare,        \* pygit2.Repository.is_bare of the clone
    remote,         \* remote-tracking branches: name -> commit
    local,          \* local branches: name -> [target, upstream]
    worktrees,      \* linked worktrees in listing order: [path, branch, prunable]
    cwd,            \* the working directory of the user's shell (Path.cwd())
    registry_file,  \* ~/.config/twig/registry.json
    wt_last,        \* the repository's git config key "wt.last"
    wt_registry,    \* the global git config key "wt.registry"
    switch_module,  \* the module of cli/commands whose switch command is registered
    environ,        \* os.environ.get("GIT_DIR") of the running pygwt process
    frame,          \* the shell command in progress: its position and its locals
    procs,          \* per pygwt process: its Registry instance and atexit hooks
    out             \* what the last command did: arguments, log, output, exit code

vars == <<is_bare, remote, local, worktrees, cwd, registry_file, wt_last, wt_registry,
          switch_module, environ, frame, procs, out>>

----------------------------------------------------------------------------
(* Bounds and the finite universe the inputs are drawn from.               *)

None == <<>>

\* commits are named "c1", "c2", ...; NoCommit is a reference that does not resolve
NoCommit == "none"

\* the clone lives at "/r"; "/o" is a directory outside of any repository
Root == <<"r">>
Outside == <<"o">>

\* HEAD of the clone is the symbolic reference refs/heads/main
HeadBranch == <<"main">>

\* branch names a user passes on the command line
BranchArgs == {<<"main">>, <<"feat">>, <<"origin", "feat">>}

\* every branch a remote may hold, with the commit it points at
RemoteUniverse ==
    ( <<"origin", "HEAD">>  :> "c1" ) @@ ( <<"origin", "main">>   :> "c1" ) @@
    ( <<"origin", "feat">>  :> "c2" ) @@ ( <<"upstream", "feat">> :> "c3" )

\* start points a user passes: omitted, a local branch, a remote branch, garbage
StartPoints == {None, <<"main">>, <<"origin", "main">>, <<"nope">>}

Restrict(f, S) == [x \in S |-> f[x]]

----------------------------------------------------------------------------
(* pygit2 reference lookups on the branch tables.                          *)

\* Repository.resolve_refish(start_point): libgit2 looks under refs/heads
\* before refs/remotes; NoCommit stands for the KeyError
resolve_refish(loc, rem, refish) ==
    IF refish \in DOMAIN loc THEN loc[refish].target
    ELSE IF refish \in DOMAIN rem THEN rem[refish]
    ELSE NoCommit

\* Repository.lookup_reference_dwim("HEAD") and, on its KeyError,
\* lookup_reference_dwim("origin/HEAD"), peeled to a commit: HEAD names
\* refs/heads/main, which an empty bare clone does not have yet
head_commit(loc) ==
    IF HeadBranch \in DOMAIN loc THEN loc[HeadBranch].target ELSE NoCommit

\* Repository.create_branch_ex(name, start_point): the commit the new
\* branch is created at; NoCommit when the lookup raises
create_branch_commit(loc, rem, start_point) ==
    IF start_point = None
    THEN IF head_commit(loc) # NoCommit THEN head_commit(loc)
         ELSE IF <<"origin", "HEAD">> \in DOMAIN rem
              THEN rem[<<"origin", "HEAD">>] ELSE NoCommit
    ELSE resolve_refish(loc, rem, start_point)

\* a mutant of create_branch_ex: the start point is ignored
create_branch_ex_at_head(loc, rem, name, start_point) ==
    LET commit == create_branch_commit(loc, rem, None) IN
    IF commit = NoCommit
    THEN [ok |-> FALSE, local |-> loc]
    ELSE [ok |-> TRUE,
          local |-> (name :> [target |-> commit, upstream |-> None]) @@ loc]

\* Repository.create_branch_ex(name, start_point) -> the branch table after
create_branch_ex(loc, rem, name, start_point) ==
    LET commit == create_branch_commit(loc, rem, start_point) IN
    IF commit = NoCommit
    THEN [ok |-> FALSE, local |-> loc]
    ELSE [ok |-> TRUE,
          local |-> (name :> [target |-> commit, upstream |-> None]) @@ loc]

\* a mutant of get_branch: the lookup of the local branch is skipped
get_branch_no_local_lookup(loc, rem, name, start_point, create) ==
    LET tracked == <<"origin">> \o name IN
    IF tracked \in DOMAIN rem
    THEN [ok |-> TRUE, how |-> "remote", branch |-> name,
          local |-> (name :> [target |-> rem[tracked], upstream |-> tracked]) @@ loc]
    ELSE IF create /\ create_branch_ex(loc, rem, name, start_point).ok
    THEN [ok |-> TRUE, how |-> "create", branch |-> name,
          local |-> create_branch_ex(loc, rem, name, start_point).local]
    ELSE [ok |-> FALSE, how |-> "error", branch |-> None, local |-> loc]

\* a mutant of get_branch: the tracking branch is created without upstream
get_branch_no_upstream(loc, rem, name, start_point, create) ==
    LET tracked == <<"origin">> \o name IN
    IF name \in DOMAIN loc
    THEN [ok |-> TRUE, how |-> "local", branch |-> name, local |-> loc]
    ELSE IF tracked \in DOMAIN rem
    THEN [ok |-> TRUE, how |-> "remote", branch |-> name,
          local |-> (name :> [target |-> rem[tracked], upstream |-> None]) @@ loc]
    ELSE IF create /\ create_branch_ex(loc, rem, name, start_point).ok
    THEN [ok |-> TRUE, how |-> "create", branch |-> name,
          local |-> create_branch_ex(loc, rem, name, start_point).local]
    ELSE [ok |-> FALSE, how |-> "error", branch |-> None, local |-> loc]

\* a mutant of get_branch: the remote lookup comes after plain creation
get_branch_create_first(loc, rem, name, start_point, create) ==
    LET tracked == <<"origin">> \o name IN
    IF name \in DOMAIN loc
    THEN [ok |-> TRUE, how |-> "local", branch |-> name, local |-> loc]
    ELSE IF create /\ create_branch_ex(loc, rem, name, start_point).ok
    THEN [ok |-> TRUE, how |-> "create", branch |-> name,
          local |-> create_branch_ex(loc, rem, name, start_point).local]
    ELSE IF tracked \in DOMAIN rem
    THEN [ok |-> TRUE, how |-> "remote", branch |-> name,
          local |-> (name :> [target |-> rem[tracked], upstream |-> tracked]) @@ loc]
    ELSE [ok |-> FALSE, how |-> "error", branch |-> None, local |-> loc]

\* Repository.get_branch(name, start_point=, create=): the branch returned
\* and the branch table after the call. how is the path taken: "local",
\* "remote" (tracking branch created), "create" (fresh branch), "error"
\* (NoBranchError, or the KeyError of an unresolvable start point)
get_branch(loc, rem, name, start_point, create) ==
    LET tracked == <<"origin">> \o name IN
    IF name \in DOMAIN loc
    THEN [ok |-> TRUE, how |-> "local", branch |-> name, local |-> loc]
    ELSE IF tracked \in DOMAIN rem
    THEN [ok |-> TRUE, how |-> "remote", branch |-> name,
          local |-> (name :> [target |-> rem[tracked], upstream |-> tracked]) @@ loc]
    ELSE IF create /\ create_branch_ex(loc, rem, name, start_point).ok
    THEN [ok |-> TRUE, how |-> "create", branch |-> name,
          local |-> create_branch_ex(loc, rem, name, start_point).local]
    ELSE [ok |-> FALSE, how |-> "error", branch |-> None, local |-> loc]

----------------------------------------------------------------------------
(* Worktrees as pygit2 shows them (git.py).                                *)

\* head.shorthand of a worktree whose HEAD is detached
Detached == <<"HEAD">>

\* index of the worktree Repository.lookup_worktree_ex(name) returns, 0 for
\* NoWorktreeError: list_worktrees_ex2 builds a dict keyed by the branch, so
\* of two worktrees on one branch the later one stays
lookup_worktree_ex(wts, name) ==
    LET hits == {i \in 1..Len(wts) : wts[i].branch = name} IN
    IF hits = {} THEN 0 ELSE CHOOSE i \in hits : \A j \in hits : j <= i

\* Repository.restore_worktree on entry i: a prunable worktree is repaired
restore_worktree(wts, i) ==
    IF wts[i].prunable THEN [wts EXCEPT ![i].prunable = FALSE] ELSE wts

\* Repository.as_worktree() of the clone's root: the linked worktree on the
\* root's branch when there is one, else FakeWorktree(branch, root)
as_worktree(wts) ==
    LET i == lookup_worktree_ex(wts, HeadBranch) IN
    IF i # 0 THEN [path |-> wts[i].path, fake |-> FALSE]
    ELSE [path |-> Root, fake |-> TRUE]

\* a mutant of get_worktree: the worktree is added before the lookup
get_worktree_always_adds(bare, loc, rem, wts, name, create, start_point, dest, dest_free) ==
    LET d == IF dest = None THEN Root \o name ELSE dest
        b == get_branch(loc, rem, name, start_point, TRUE) IN
    IF b.ok
    THEN [ok |-> TRUE, how |-> "created", path |-> d, fake |-> FALSE,
          local |-> b.local,
          worktrees |-> Append(wts, [path |-> d, branch |-> name, prunable |-> FALSE])]
    ELSE [ok |-> FALSE, how |-> "failed", path |-> None, fake |-> FALSE,
          local |-> loc, worktrees |-> wts]

\* a mutant of worktree_dest: the worktree always goes below the root
worktree_dest_below_root(name, dest) == Root \o name

\* the destination of a new worktree in get_worktree: root.joinpath(name)
\* when dest is None, else Path(dest), in a bare and in a non-bare clone
worktree_dest(name, dest) == IF dest = None THEN Root \o name ELSE dest

\* a mutant of get_worktree: add_worktree is called without the branch, so
\* the new worktree is on a branch named after the worktree
get_worktree_unnamed(bare, loc, rem, wts, name, create, start_point, dest, dest_free) ==
    LET g == get_worktree_always_adds(bare, loc, rem, wts, name, create, start_point,
                                      dest, dest_free)
        i == lookup_worktree_ex(wts, name) IN
    IF (~bare /\ HeadBranch = name) \/ i # 0 \/ ~create \/ ~g.ok
    THEN [ok |-> (~bare /\ HeadBranch = name) \/ i # 0,
          how |-> IF ~bare /\ HeadBranch = name THEN "root"
                  ELSE IF i # 0 THEN "found" ELSE IF ~create THEN "missing" ELSE "failed",
          path |-> IF ~bare /\ HeadBranch = name THEN as_worktree(wts).path
                   ELSE IF i # 0 THEN wts[i].path ELSE None,
          fake |-> FALSE, local |-> loc, worktrees |-> wts]
    ELSE [g EXCEPT !.worktrees =
              Append(wts, [path |-> g.path, branch |-> <<"sha1">>, prunable |-> FALSE])]

\* Repository.get_worktree(name, create=, start_point=, dest=). dest_free
\* says whether pygit2's add_worktree finds the destination unused. how is
\* the path taken: "root", "found", "created", "failed" (get_branch or
\* add_worktree raised), "missing" (NoWorktreeError)
get_worktree(bare, loc, rem, wts, name, create, start_point, dest, dest_free) ==
    LET i == lookup_worktree_ex(wts, name)
        d == worktree_dest(name, dest)
        b == get_branch(loc, rem, name, start_point, TRUE)
        taken == d = Root \/ \E k \in 1..Len(wts) : wts[k].path = d
        same == [local |-> loc, worktrees |-> wts] IN
    IF ~bare /\ HeadBranch = name
    THEN [ok |-> TRUE, how |-> "root"] @@ as_worktree(wts) @@ same
    ELSE IF i # 0
    THEN [ok |-> TRUE, how |-> "found", path |-> wts[i].path, fake |-> FALSE,
          local |-> loc, worktrees |-> restore_worktree(wts, i)]
    ELSE IF ~create
    THEN [ok |-> FALSE, how |-> "missing", path |-> None, fake |-> FALSE] @@ same
    ELSE IF ~b.ok
    THEN [ok |-> FALSE, how |-> "failed", path |-> None, fake |-> FALSE] @@ same
    ELSE IF taken \/ ~dest_free
    THEN [ok |-> FALSE, how |-> "failed", path |-> None, fake |-> FALSE,
          local |-> b.local, worktrees |-> wts]
    ELSE [ok |-> TRUE, how |-> "created", path |-> d, fake |-> FALSE,
          local |-> b.local,
          worktrees |-> Append(wts, [path |-> d, branch |-> name, prunable |-> FALSE])]

----------------------------------------------------------------------------
(* The git command gateway behind cli/commands/worktree.py.                *)

\* remote branches in the order the ref listing enumerates them
RemoteOrder ==
    << <<"origin", "HEAD">>, <<"origin", "feat">>, <<"origin", "main">>,
       <<"upstream", "feat">> >>

\* the remote branches that carry name: the part after the first "/" is
\* name, or the full remote/name form is name
RemoteMatches(rem, name) == {rb \in DOMAIN rem : Tail(rb) = name \/ rb = name}

\* the match the gateway tracks: the exact one, else the first enumerated
remote_match(rem, name) ==
    IF name \in DOMAIN rem THEN name
    ELSE LET k == CHOOSE i \in 1..Len(RemoteOrder) :
                    /\ RemoteOrder[i] \in RemoteMatches(rem, name)
                    /\ \A j \in 1..(i - 1) : RemoteOrder[j] \notin RemoteMatches(rem, name)
         IN RemoteOrder[k]

\* resolve_or_create_branch(name, start_point): local branch, else a branch
\* tracking the matching remote branch, else a fresh untracked branch
resolve_or_create_branch(loc, rem, name, start_point) ==
    LET commit == IF start_point = None THEN head_commit(loc)
                  ELSE resolve_refish(loc, rem, start_point) IN
    IF name \in DOMAIN loc
    THEN [ok |-> TRUE, branch |-> name, local |-> loc]
    ELSE IF RemoteMatches(rem, name) # {}
    THEN [ok |-> TRUE, branch |-> name,
          local |-> (name :> [target |-> rem[remote_match(rem, name)],
                              upstream |-> remote_match(rem, name)]) @@ loc]
    ELSE IF commit # NoCommit
    THEN [ok |-> TRUE, branch |-> name,
          local |-> (name :> [target |-> commit, upstream |-> None]) @@ loc]
    ELSE [ok |-> FALSE, branch |-> None, local |-> loc]

\* compute_destination(branch, explicit_dest)
compute_destination(bare, branch, dest) ==
    IF dest # None THEN dest
    ELSE IF bare THEN Root \o branch
    ELSE Root \o <<".worktrees">> \o branch

\* worktree_list(): the (path, branch) entries of the porcelain listing, the
\* main worktree of a non-bare clone first; blocks without a branch line
\* (a bare main entry, a detached worktree) are dropped
worktree_list(bare, wts) ==
    LET linked == [i \in 1..Len(wts) |-> [path |-> wts[i].path, branch |-> wts[i].branch]]
    IN (IF bare THEN << >> ELSE << [path |-> Root, branch |-> HeadBranch] >>)
       \o SelectSeq(linked, LAMBDA e : e.branch # Detached)

\* worktree_add(branch, dest=, start_point=) -> (dest, root): canonicalize
\* the branch, compute the destination, run "git worktree add". git refuses
\* a destination that exists and a branch that is checked out elsewhere.
worktree_add(bare, loc, rem, wts, name, dest, start_point, dest_free) ==
    LET b == resolve_or_create_branch(loc, rem, name, start_point)
        d == compute_destination(bare, name, dest)
        taken == d = Root \/ \E k \in 1..Len(wts) : wts[k].path = d
        checked_out == \E k \in 1..Len(worktree_list(bare, wts)) :
                          worktree_list(bare, wts)[k].branch = name IN
    IF ~b.ok
    THEN [ok |-> FALSE, dest |-> None, local |-> loc, worktrees |-> wts]
    ELSE IF taken \/ checked_out \/ ~dest_free
    THEN [ok |-> FALSE, dest |-> None, local |-> b.local, worktrees |-> wts]
    ELSE [ok |-> TRUE, dest |-> d, local |-> b.local,
          worktrees |-> Append(wts, [path |-> d, branch |-> b.branch, prunable |-> FALSE])]

----------------------------------------------------------------------------
(* The registry (config.py).                                               *)

\* Registry field defaults
RegistryDefaults ==
    [last_worktree |-> None, last_repository |-> None, repositories |-> << >>]

\* registry.json does not exist
NoFile == [k \in {} |-> None]

\* model_dump_json of an optional path: null, or the path as a string
dump_path(path) == IF path = None THEN <<"null">> ELSE <<"str">> \o path

\* pydantic's validation of an optional path read by json.loads
load_path(value) == IF value = <<"null">> THEN None ELSE Tail(value)

\* model_dump_json of the list of repositories, in order
dump_paths(paths) == [i \in 1..Len(paths) |-> dump_path(paths[i])]

\* pydantic's validation of the list of repositories, in order
load_paths(values) == [i \in 1..Len(values) |-> load_path(values[i])]

\* a mutant of RegistryLoad: the file is never read
RegistryLoad_defaults(file) == RegistryDefaults

\* a mutant of RegistryLoad: only the key without an alias is read
RegistryLoad_without_alias(file) ==
    IF DOMAIN file = {} THEN RegistryDefaults
    ELSE [last_worktree |-> None,
          last_repository |-> None,
          repositories |-> load_paths(file["repositories"])]

\* Registry.__init__: the model built from the file's keys, or the defaults
RegistryLoad(file) ==
    IF DOMAIN file = {} THEN RegistryDefaults
    ELSE [last_worktree |-> load_path(file["last-worktree"]),
          last_repository |-> load_path(file["last-repository"]),
          repositories |-> load_paths(file["repositories"])]

\* a mutant of RegistrySave: the fields are written at their defaults
RegistrySave_defaults(registry) ==
    ("last-worktree" :> dump_path(None)) @@
    ("last-repository" :> dump_path(None)) @@
    ("repositories" :> << >>)

\* the atexit hook: model_dump_json(by_alias=True) written to the file
RegistrySave(registry) ==
    ("last-worktree" :> dump_path(registry.last_worktree)) @@
    ("last-repository" :> dump_path(registry.last_repository)) @@
    ("repositories" :> dump_paths(registry.repositories))

----------------------------------------------------------------------------
(* What a command leaves behind for its caller.                            *)

\* the record of one call: log is the sequence of its visible steps, echo
\* the path (or branch) handed back, exit the process exit code
Report(cmd, name, start_point, create, dir, exit, echo, log) ==
    [cmd |-> cmd, name |-> name, start_point |-> start_point, create |-> create,
     cwd |-> dir, exit |-> exit, echo |-> echo, log |-> log]

Idle == Report("none", None, None, FALSE, None, 0, None, << >>)

\* no shell command is in progress
NoFrame == [pc |-> "none"]

\* no pygwt process has touched the registry
NoProcs == << >>

----------------------------------------------------------------------------
(* The repositories a command may find itself in.                          *)

RemoteConfigs ==
    { Restrict(RemoteUniverse, S) : S \in
        { {},
          {<<"upstream", "feat">>},
          {<<"origin", "HEAD">>, <<"origin", "main">>},
          {<<"origin", "HEAD">>, <<"origin", "main">>, <<"origin", "feat">>},
          {<<"origin", "HEAD">>, <<"origin", "main">>, <<"upstream", "feat">>},
          {<<"origin", "HEAD">>, <<"origin", "main">>, <<"origin", "feat">>,
           <<"upstream", "feat">>} } }

EmptyBranches == [b \in {} |-> [target |-> NoCommit, upstream |-> None]]

LocalConfigs ==
    { EmptyBranches,
      (<<"main">> :> [target |-> "c4", upstream |-> None]),
      (<<"main">> :> [target |-> "c4", upstream |-> None]) @@
      (<<"feat">> :> [target |-> "c5", upstream |-> None]) }

\* a non-bare clone has its HEAD branch checked out at the root
InitRepository ==
    /\ is_bare \in BOOLEAN
    /\ remote \in RemoteConfigs
    /\ local \in LocalConfigs
    /\ ~is_bare => HeadBranch \in DOMAIN local

\* the linked worktrees a clone may already have: none, one per branch, two
\* on one branch (git worktree add --force), a detached one, a prunable one
WorktreeConfigs ==
    { << >>,
      << [path |-> Root \o <<"feat">>, branch |-> <<"feat">>, prunable |-> FALSE] >>,
      << [path |-> Root \o <<"main">>, branch |-> <<"main">>, prunable |-> FALSE] >>,
      << [path |-> Root \o <<"feat">>, branch |-> <<"feat">>, prunable |-> TRUE] >>,
      << [path |-> Root \o <<"x">>, branch |-> Detached, prunable |-> FALSE] >>,
      << [path |-> Root \o <<"feat">>, branch |-> <<"feat">>, prunable |-> FALSE],
         [path |-> Root \o <<"x">>, branch |-> <<"feat">>, prunable |-> FALSE] >> }

\* a worktree has a local branch checked out, or none; the HEAD branch of a
\* non-bare clone is checked out at the root
InitWorktrees ==
    /\ worktrees \in WorktreeConfigs
    /\ \A i \in 1..Len(worktrees) :
          /\ worktrees[i].branch \in DOMAIN local \cup {Detached}
          /\ ~is_bare => worktrees[i].branch # HeadBranch

----------------------------------------------------------------------------
(* The commands (cli/commands).                                            *)

\* the argument "-": back to the previous location
Dash == <<"-">>

\* a mutant of first_on_branch: the loop runs on after a match, so the last
\* entry that has name checked out stays
last_on_branch(entries, name) ==
    LET hits == {i \in 1..Len(entries) : entries[i].branch = name} IN
    IF hits = {} THEN None
    ELSE entries[CHOOSE i \in hits : \A j \in hits : j <= i].path

\* the loop of switch over worktree_list(): the path of the first entry that
\* has name checked out, None without one
first_on_branch(entries, name) ==
    LET hits == {i \in 1..Len(entries) : entries[i].branch = name} IN
    IF hits = {} THEN None
    ELSE entries[CHOOSE i \in hits : \A j \in hits : i <= j].path

\* a mutant of switch_done: the registry remembers the destination
switch_done_remembers_dest(config, dir, dest, steps, l, w) ==
    [exit |-> 0, echo |-> dest, log |-> steps \o <<"echo", "last_worktree">>,
     registry |-> [config EXCEPT !.last_worktree = dest],
     local |-> l, worktrees |-> w]

\* the end of a switch that has a destination: click.echo(dest), then
\* config.last_worktree = Path.cwd(), then the process ends normally
switch_done(config, dir, dest, steps, l, w) ==
    [exit |-> 0, echo |-> dest, log |-> steps \o <<"echo", "last_worktree">>,
     registry |-> [config EXCEPT !.last_worktree = dir],
     local |-> l, worktrees |-> w]

\* a switch that leaves early: sys.exit(1), or an exception the catcher of
\* decorators.common turns into exit code 1; nothing is echoed and the
\* registry is as loaded
switch_failed(config, steps, l, w) ==
    [exit |-> 1, echo |-> None, log |-> steps,
     registry |-> config, local |-> l, worktrees |-> w]

\* cli/commands/worktree.py switch(name, start_point, create) run in dir
\* with the registry file as given: exit code, path echoed, visible steps in
\* order, the registry the atexit hook writes, branches and worktrees after
switch(bare, loc, rem, wts, file, dir, name, start_point, create, dest_free) ==
    LET config == RegistryLoad(file)
        found == first_on_branch(worktree_list(bare, wts), name)
        added == worktree_add(bare, loc, rem, wts, name, None, start_point, dest_free)
    IN
    IF name = Dash
    THEN IF config.last_worktree # None
         THEN switch_done(config, dir, config.last_worktree, << >>, loc, wts)
         ELSE switch_failed(config, <<"error", "exit">>, loc, wts)
    ELSE IF dir = Outside
    THEN switch_failed(config, <<"raise">>, loc, wts)
    ELSE IF found # None
    THEN switch_done(config, dir, found, <<"found">>, loc, wts)
    ELSE IF ~create
    THEN switch_failed(config, <<"not_found", "error", "exit">>, loc, wts)
    ELSE IF added.ok
    THEN switch_done(config, dir, added.dest, <<"not_found", "worktree_add">>,
                     added.local, added.worktrees)
    ELSE switch_failed(config, <<"not_found", "worktree_add", "raise">>, added.local, wts)

\* a mutant of switch_wt_last: "-" leaves wt.last as it is
switch_wt_last_dash_keeps(bare, loc, rem, wts, last, dir, name, start_point, create, dest_free) ==
    LET w == get_worktree(bare, loc, rem, wts, name, create, start_point, None, dest_free)
        same == [local |-> loc, worktrees |-> wts]
    IN
    IF dir = Outside
    THEN [exit |-> 1, echo |-> None, log |-> <<"raise">>, last |-> last] @@ same
    ELSE IF name = Dash
    THEN IF last # None
         THEN [exit |-> 0, echo |-> last, log |-> <<"echo">>, last |-> last] @@ same
         ELSE [exit |-> 1, echo |-> <<".">>, log |-> <<"error", "echo", "exit">>,
               last |-> last] @@ same
    ELSE IF w.ok
    THEN [exit |-> 0, echo |-> w.path, log |-> <<w.how, "wt.last", "echo", "wt.last">>,
          last |-> dir, local |-> w.local, worktrees |-> w.worktrees]
    ELSE [exit |-> 1, echo |-> None, log |-> <<w.how, "raise">>,
          last |-> last, local |-> w.local, worktrees |-> w.worktrees]

\* cli/commands/switch.py switch(name, start_point, create) run in dir with
\* the config value wt.last as given
switch_wt_last(bare, loc, rem, wts, last, dir, name, start_point, create, dest_free) ==
    LET w == get_worktree(bare, loc, rem, wts, name, create, start_point, None, dest_free)
        same == [local |-> loc, worktrees |-> wts]
    IN
    IF dir = Outside
    THEN [exit |-> 1, echo |-> None, log |-> <<"raise">>, last |-> last] @@ same
    ELSE IF name = Dash
    THEN IF last # None
         THEN [exit |-> 0, echo |-> last, log |-> <<"echo", "wt.last">>,
               last |-> dir] @@ same
         ELSE [exit |-> 1, echo |-> <<".">>, log |-> <<"error", "echo", "exit">>,
               last |-> last] @@ same
    ELSE IF w.ok
    THEN [exit |-> 0, echo |-> w.path, log |-> <<w.how, "wt.last", "echo", "wt.last">>,
          last |-> dir, local |-> w.local, worktrees |-> w.worktrees]
    ELSE [exit |-> 1, echo |-> None, log |-> <<w.how, "raise">>,
          last |-> last, local |-> w.local, worktrees |-> w.worktrees]

\* directories a command can be started in
Dirs == {Root, Outside} \cup {worktrees[i].path : i \in 1..Len(worktrees)}

\* branch names passed to the switch commands
SwitchArgs == {<<"main">>, <<"feat">>}

\* start points passed to the switch commands
SwitchStartPoints == {None, <<"origin", "main">>}

\* the remotes of the clones the switch commands are run in: no remote, a
\* second remote only, a cloned origin
SwitchRemoteConfigs ==
    { Restrict(RemoteUniverse, S) : S \in
        { {},
          {<<"upstream", "feat">>},
          {<<"origin", "HEAD">>, <<"origin", "main">>, <<"origin", "feat">>} } }

\* the modules of cli/commands that define a command named switch. The
\* loader adds the commands of every module to one group by name, so one of
\* them is the switch command of an installation
SwitchModules == {"worktree", "switch"}

Init ==
    /\ InitRepository
    /\ remote \in SwitchRemoteConfigs
    /\ InitWorktrees
    /\ cwd = Root
    /\ registry_file = NoFile
    /\ wt_last = None
    /\ wt_registry = None
    /\ environ = None /\ frame = NoFrame /\ procs = NoProcs
    /\ switch_module \in SwitchModules
    /\ out = Idle

\* pygwt switch NAME [START_POINT] [-c] (cli/commands/worktree.py), started
\* by the user's shell in dir
Switch(dir, name, start_point, create, dest_free) ==
    LET r == switch(is_bare, local, remote, worktrees, registry_file, dir,
                    name, start_point, create, dest_free) IN
    /\ switch_module = "worktree"
    /\ cwd' = dir
    /\ local' = r.local
    /\ worktrees' = r.worktrees
    /\ registry_file' = RegistrySave(r.registry)
    /\ out' = Report("switch", name, start_point, create, dir, r.exit, r.echo, r.log)
    /\ UNCHANGED <<is_bare, remote, wt_last, wt_registry, switch_module, environ, frame, procs>>

\* pygwt switch NAME [START_POINT] [-c] (cli/commands/switch.py), started
\* by the user's shell in dir
SwitchWtLast(dir, name, start_point, create, dest_free) ==
    LET r == switch_wt_last(is_bare, local, remote, worktrees, wt_last, dir,
                            name, start_point, create, dest_free) IN
    /\ switch_module = "switch"
    /\ cwd' = dir
    /\ local' = r.local
    /\ worktrees' = r.worktrees
    /\ wt_last' = r.last
    /\ out' = Report("switch", name, start_point, create, dir, r.exit, r.echo, r.log)
    /\ UNCHANGED <<is_bare, remote, registry_file, wt_registry, switch_module, environ, frame, procs>>

\* the start point and the state of the destination are read on the create
\* path only; "-" takes neither
Next ==
    \E dir \in Dirs :
        \/ \E name \in SwitchArgs, start_point \in SwitchStartPoints, dest_free \in BOOLEAN :
              \/ Switch(dir, name, start_point, TRUE, dest_free)
              \/ SwitchWtLast(dir, name, start_point, TRUE, dest_free)
        \/ \E name \in SwitchArgs :
              \/ Switch(dir, name, None, FALSE, TRUE)
              \/ SwitchWtLast(dir, name, None, FALSE, TRUE)
        \/ Switch(dir, Dash, None, FALSE, TRUE)
        \/ SwitchWtLast(dir, Dash, None, FALSE, TRUE)

Spec == Init /\ [][Next]_vars

----------------------------------------------------------------------------
(* Properties of switch.                                                   *)

\* the step just taken was a run of the switch command
SwitchStep == out'.cmd = "switch"

\* the registry's last_worktree as the file holds it
LastWorktreeOnFile(file) ==
    IF DOMAIN file = {} THEN None ELSE load_path(file["last-worktree"])

\* the place "-" goes back to, as the registered switch command keeps it
LastLocation ==
    IF switch_module = "worktree" THEN LastWorktreeOnFile(registry_file) ELSE wt_last

\* the branches checked out in the listing of worktrees
ListedBranches(bare, wts) ==
    {worktree_list(bare, wts)[i].branch : i \in 1..Len(worktree_list(bare, wts))}

\* position of step in log, 0 when it is not there
Position(log, step) ==
    IF \E i \in 1..Len(log) : log[i] = step
    THEN CHOOSE i \in 1..Len(log) : log[i] = step /\ \A j \in 1..(i - 1) : log[j] # step
    ELSE 0

\* C1: after a successful switch(name), name other than "-", started in
\* directory D, the next switch("-") (started inside the clone when the
\* location is kept in the clone's config) succeeds and returns D.
C1_DashReturnsToPreviousDirectory ==
    [][ ( /\ out.cmd = "switch" /\ out.name # Dash /\ out.exit = 0
          /\ SwitchStep /\ out'.name = Dash
          /\ (switch_module = "switch" => out'.cwd # Outside) )
        => (out'.exit = 0 /\ out'.echo = out.cwd) ]_vars

C1_Witness ==
    /\ out.cmd = "switch" /\ out.name = Dash /\ out.exit = 0
    /\ out.echo \notin {None, Root, out.cwd}
    /\ LastLocation = out.cwd

\* C2 as stated: every run of switch, whatever its outcome, leaves
\* last_worktree at the directory it was started in, and sets it before the
\* path is echoed.
C2_EverySwitchSetsLastWorktreeFirst ==
    [][ (SwitchStep /\ switch_module = "worktree")
        => ( /\ LastWorktreeOnFile(registry_file') = out'.cwd
             /\ Position(out'.log, "echo") # 0
                   => Position(out'.log, "last_worktree") \in
                          1..(Position(out'.log, "echo") - 1) ) ]_vars

\* C2 amended: a run of switch that succeeds leaves last_worktree at the
\* directory it was started in, set after the path is echoed and saved when
\* the process ends; a run that fails leaves last_worktree as it was.
C2_SuccessfulSwitchSetsLastWorktree ==
    [][ (SwitchStep /\ switch_module = "worktree")
        => IF out'.exit = 0
           THEN /\ LastWorktreeOnFile(registry_file') = out'.cwd
                /\ Position(out'.log, "echo") # 0
                /\ Position(out'.log, "last_worktree") > Position(out'.log, "echo")
           ELSE /\ LastWorktreeOnFile(registry_file') = LastWorktreeOnFile(registry_file)
                /\ Position(out'.log, "echo") = 0
                /\ Position(out'.log, "last_worktree") = 0 ]_vars

C2_Witness ==
    /\ switch_module = "worktree" /\ out.cmd = "switch"
    /\ out.exit = 1 /\ out.name # Dash /\ out.cwd # Outside
    /\ LastWorktreeOnFile(registry_file) \notin {None, out.cwd}

\* C3: switch("-") returns the registry's last_worktree (exit code 0) when
\* it is set, and fails with exit code 1 and no path when it is unset.
C3_DashReturnsLastWorktreeOrFails ==
    [][ (SwitchStep /\ switch_module = "worktree" /\ out'.name = Dash)
        => IF LastWorktreeOnFile(registry_file) # None
           THEN out'.exit = 0 /\ out'.echo = LastWorktreeOnFile(registry_file)
           ELSE out'.exit = 1 /\ out'.echo = None
                /\ out'.log = <<"error", "exit">> ]_vars

C3_Witness ==
    /\ switch_module = "worktree" /\ out.cmd = "switch" /\ out.name = Dash
    /\ out.exit = 1 /\ out.echo = None
    /\ worktrees # << >>

\* C4: switch(name, create=false), started inside the clone, for a name no
\* listed worktree has checked out fails with exit code 1 and no path, on
\* the no-worktree path, and leaves worktrees and local branches as they were.
C4_SwitchWithoutCreateFailsUnchanged ==
    [][ ( /\ SwitchStep /\ out'.name # Dash /\ ~out'.create
          /\ out'.cwd # Outside
          /\ out'.name \notin ListedBranches(is_bare, worktrees) )
        => ( /\ out'.exit = 1 /\ out'.echo = None
             /\ out'.log \in {<<"not_found", "error", "exit">>, <<"missing", "raise">>}
             /\ worktrees' = worktrees /\ local' = local ) ]_vars

C4_Witness ==
    /\ out.cmd = "switch" /\ out.name = <<"feat">> /\ ~out.create
    /\ out.exit = 1 /\ out.cwd \notin {Outside, Root}
    /\ <<"origin", "feat">> \in DOMAIN remote
    /\ <<"feat">> \notin DOMAIN local

\* C5: when a listed worktree has name checked out, switch(name), with or
\* without the create flag, returns the path of the first such entry in
\* listing order and creates neither a branch nor a worktree.
C5_FirstListedWorktreeIsReturned ==
    [][ ( /\ SwitchStep /\ switch_module = "worktree"
          /\ out'.name # Dash /\ out'.cwd # Outside
          /\ out'.name \in ListedBranches(is_bare, worktrees) )
        => LET entries == worktree_list(is_bare, worktrees) IN
           /\ out'.exit = 0
           /\ \E i \in 1..Len(entries) :
                 /\ entries[i].branch = out'.name
                 /\ \A j \in 1..(i - 1) : entries[j].branch # out'.name
                 /\ out'.echo = entries[i].path
           /\ local' = local /\ worktrees' = worktrees ]_vars

C5_Witness ==
    /\ switch_module = "worktree" /\ out.cmd = "switch"
    /\ out.name = <<"feat">> /\ out.create /\ out.exit = 0
    /\ Len(worktrees) = 2
    /\ worktrees[1].branch = <<"feat">> /\ worktrees[2].branch = <<"feat">>
    /\ out.echo = worktrees[1].path

\* the run recorded in report created its worktree
Created(report) ==
    /\ report.cmd = "switch" /\ report.create /\ report.exit = 0
    /\ Position(report.log, "worktree_add") # 0 \/ Position(report.log, "created") # 0

\* C6: switch(name, create=true) for a name no listed worktree has checked
\* out, when it succeeds, does what add(name, start_point) does and returns
\* the path add produced; afterwards exactly one listed worktree has name
\* checked out, at that path; and a switch(name, create=false) that follows
\* returns the same path and changes neither branches nor worktrees.
C6_CreateDelegatesToAddOnce ==
    [][ /\ ( /\ SwitchStep /\ out'.create /\ out'.exit = 0
             /\ out'.name \notin ListedBranches(is_bare, worktrees) )
           => LET a == worktree_add(is_bare, local, remote, worktrees, out'.name,
                                    None, out'.start_point, TRUE)
                  g == get_worktree(is_bare, local, remote, worktrees, out'.name,
                                    TRUE, out'.start_point, None, TRUE)
                  entries == worktree_list(is_bare, worktrees') IN
              /\ Created(out')
              /\ IF switch_module = "worktree"
                 THEN /\ a.ok /\ out'.echo = a.dest
                      /\ local' = a.local /\ worktrees' = a.worktrees
                 ELSE /\ g.ok /\ out'.echo = g.path
                      /\ local' = g.local /\ worktrees' = g.worktrees
              /\ Cardinality({i \in 1..Len(entries) : entries[i].branch = out'.name}) = 1
              /\ \E i \in 1..Len(entries) :
                    entries[i].branch = out'.name /\ entries[i].path = out'.echo
        /\ ( /\ Created(out)
             /\ SwitchStep /\ out'.name = out.name /\ ~out'.create
             /\ out'.cwd # Outside )
           => ( /\ out'.exit = 0 /\ out'.echo = out.echo
                /\ local' = local /\ worktrees' = worktrees ) ]_vars

C6_Witness ==
    /\ Created(out) /\ out.name = <<"feat">> /\ out.start_point # None
    /\ switch_module = "switch"
    /\ local[<<"feat">>].upstream = <<"origin", "feat">>
    /\ Len(worktrees) = 2

\* the step is a run of switch("-") that can read the last location: the
\* registry from anywhere, the key wt.last from inside the clone
DashStep ==
    /\ SwitchStep /\ out'.name = Dash
    /\ switch_module = "switch" => out'.cwd # Outside

\* C26: switch("-") called from directory D with a last location set ends
\* with exit code 0 and leaves D as the last location; a second switch("-")
\* called from the path the first one returned gives back the directory the
\* first one was called from.
C26_DashRecordsCallingDirectory ==
    [][ /\ (DashStep /\ LastLocation # None)
            => (out'.exit = 0 /\ LastLocation' = out'.cwd)
        /\ ( /\ out.cmd = "switch" /\ out.name = Dash /\ out.exit = 0
             /\ DashStep /\ out'.cwd = out.echo )
            => (out'.exit = 0 /\ out'.echo = out.cwd) ]_vars

\* switch("-") has just brought the user from a linked worktree back to
\* another directory, and the worktree is now the last location
C26_Witness ==
    /\ out.cmd = "switch" /\ out.name = Dash /\ out.exit = 0
    /\ \E i \in 1..Len(worktrees) : worktrees[i].path = out.cwd
    /\ out.echo # out.cwd
    /\ LastLocation = out.cwd

----------------------------------------------------------------------------
(* The add commands.                                                       *)

\* destinations passed with --dest: none, a directory outside the clone
AddDests == {None, Outside \o <<"d">>}

\* the record of a run of add: what Report keeps, and the --dest argument
ReportAdd(cmd, name, start_point, dest, dir, exit, log) ==
    [cmd |-> cmd, name |-> name, start_point |-> start_point, create |-> TRUE,
     cwd |-> dir, exit |-> exit, echo |-> None, log |-> log, dest |-> dest]

\* cli/commands/__init__.py add(branch, dest, start_point) run in dir:
\* Repository() and get_worktree(branch, create=True, ...); an exception
\* ends the process with exit code 1
add_get_worktree(bare, loc, rem, wts, dir, branch, start_point, dest, dest_free) ==
    LET w == get_worktree(bare, loc, rem, wts, branch, TRUE, start_point, dest, dest_free) IN
    IF dir = Outside
    THEN [exit |-> 1, log |-> <<"raise">>, local |-> loc, worktrees |-> wts]
    ELSE [exit |-> IF w.ok THEN 0 ELSE 1, log |-> <<w.how>>,
          local |-> w.local, worktrees |-> w.worktrees]

\* the exit code git ends with on a fatal error, the returncode of the
\* CalledProcessError the gateway raises
GitFailureCode == 128

\* a mutant of add: the except clause exits with the returncode of git
add_propagates(bare, loc, rem, wts, dir, branch, start_point, dest, dest_free) ==
    LET a == worktree_add(bare, loc, rem, wts, branch, dest, start_point, dest_free) IN
    IF dir = Outside
    THEN [exit |-> GitFailureCode, log |-> <<"worktree_add", "exit">>,
          local |-> loc, worktrees |-> wts]
    ELSE IF a.ok
    THEN [exit |-> 0, log |-> <<"worktree_add">>, local |-> a.local, worktrees |-> a.worktrees]
    ELSE [exit |-> GitFailureCode, log |-> <<"worktree_add", "exit">>,
          local |-> a.local, worktrees |-> wts]

\* a mutant of add: the except clause passes instead of exiting
add_ignores_error(bare, loc, rem, wts, dir, branch, start_point, dest, dest_free) ==
    LET a == worktree_add(bare, loc, rem, wts, branch, dest, start_point, dest_free) IN
    IF dir = Outside
    THEN [exit |-> 0, log |-> <<"worktree_add">>, local |-> loc, worktrees |-> wts]
    ELSE [exit |-> 0, log |-> <<"worktree_add">>, local |-> a.local,
          worktrees |-> a.worktrees]

\* a mutant of add: a failed add puts the branches back as they were
add_rolls_back(bare, loc, rem, wts, dir, branch, start_point, dest, dest_free) ==
    LET a == worktree_add(bare, loc, rem, wts, branch, dest, start_point, dest_free) IN
    IF dir = Outside
    THEN [exit |-> 1, log |-> <<"worktree_add", "exit">>, local |-> loc, worktrees |-> wts]
    ELSE IF a.ok
    THEN [exit |-> 0, log |-> <<"worktree_add">>, local |-> a.local, worktrees |-> a.worktrees]
    ELSE [exit |-> 1, log |-> <<"worktree_add", "exit">>, local |-> loc, worktrees |-> wts]

\* cli/commands/worktree.py add(branch, dest, start_point) run in dir:
\* git.worktree_add, sys.exit(1) on a SubprocessError
add(bare, loc, rem, wts, dir, branch, start_point, dest, dest_free) ==
    LET a == worktree_add(bare, loc, rem, wts, branch, dest, start_point, dest_free) IN
    IF dir = Outside
    THEN [exit |-> 1, log |-> <<"worktree_add", "exit">>, local |-> loc, worktrees |-> wts]
    ELSE IF a.ok
    THEN [exit |-> 0, log |-> <<"worktree_add">>, local |-> a.local, worktrees |-> a.worktrees]
    ELSE [exit |-> 1, log |-> <<"worktree_add", "exit">>, local |-> a.local, worktrees |-> wts]

\* pygwt add BRANCH [START-POINT] [--dest DEST] (cli/commands/__init__.py)
AddGetWorktree(dir, branch, start_point, dest, dest_free) ==
    LET r == add_get_worktree(is_bare, local, remote, worktrees, dir, branch,
                              start_point, dest, dest_free) IN
    /\ cwd' = dir
    /\ local' = r.local
    /\ worktrees' = r.worktrees
    /\ out' = ReportAdd("commands.add", branch, start_point, dest, dir, r.exit, r.log)
    /\ UNCHANGED <<is_bare, remote, registry_file, wt_last, wt_registry, switch_module, environ, frame, procs>>

\* pygwt add BRANCH [START-POINT] [--dest DEST] (cli/commands/worktree.py)
Add(dir, branch, start_point, dest, dest_free) ==
    LET r == add(is_bare, local, remote, worktrees, dir, branch,
                 start_point, dest, dest_free) IN
    /\ cwd' = dir
    /\ local' = r.local
    /\ worktrees' = r.worktrees
    /\ out' = ReportAdd("worktree.add", branch, start_point, dest, dir, r.exit, r.log)
    /\ UNCHANGED <<is_bare, remote, registry_file, wt_last, wt_registry, switch_module, environ, frame, procs>>

InitAdd ==
    /\ InitRepository
    /\ remote \in SwitchRemoteConfigs
    /\ InitWorktrees
    /\ cwd = Root
    /\ registry_file = NoFile
    /\ wt_last = None
    /\ wt_registry = None
    /\ environ = None /\ frame = NoFrame /\ procs = NoProcs
    /\ switch_module = "worktree"
    /\ out = Idle

NextAdd ==
    \E dir \in {Root, Outside}, branch \in SwitchArgs, start_point \in SwitchStartPoints,
       dest \in AddDests, dest_free \in BOOLEAN :
        \/ AddGetWorktree(dir, branch, start_point, dest, dest_free)
        \/ Add(dir, branch, start_point, dest, dest_free)

SpecAdd == InitAdd /\ [][NextAdd]_vars

\* the worktree entries at path
EntriesAt(wts, path) == {i \in 1..Len(wts) : wts[i].path = path}

RequestedDest(bare, report) == compute_destination(bare, report.name, report.dest)

\* C16 as stated: when add fails, no worktree entry for the requested
\* destination exists afterwards and no path is returned.
C16_FailedAddLeavesDestinationWithoutEntry ==
    [][ (out'.cmd = "worktree.add" /\ out'.exit # 0)
        => ( /\ EntriesAt(worktrees', RequestedDest(is_bare, out')) = {}
             /\ out'.echo = None ) ]_vars

\* C16 amended: add ends with exit code 1 whenever the branch cannot be
\* resolved or created, or the destination is taken, or the worktree-add
\* command fails; in that case no worktree entry is created (the worktrees
\* are as before, an entry that held the destination included) and no path
\* is returned; otherwise the new entry is at the requested destination.
C16_FailedAddCreatesNoEntry ==
    [][ out'.cmd = "worktree.add"
        => /\ out'.exit \in {0, 1}
           /\ ( \/ ~resolve_or_create_branch(local, remote, out'.name,
                                             out'.start_point).ok
                \/ EntriesAt(worktrees, RequestedDest(is_bare, out')) # {}
                \/ out'.cwd = Outside ) => out'.exit = 1
           /\ out'.exit = 1 => (worktrees' = worktrees /\ out'.echo = None)
           /\ out'.exit = 0 =>
                 worktrees' = Append(worktrees,
                                     [path |-> RequestedDest(is_bare, out'),
                                      branch |-> out'.name, prunable |-> FALSE]) ]_vars

C16_Witness ==
    /\ out.cmd = "worktree.add" /\ out.exit = 1 /\ out.cwd = Root
    /\ out.dest # None
    /\ EntriesAt(worktrees, RequestedDest(is_bare, out)) # {}

\* the step is a run of one of the add commands inside the clone
AddStep == out'.cmd \in {"worktree.add", "commands.add"} /\ out'.cwd # Outside

\* C30: add canonicalizes the branch before it creates the worktree and
\* rolls nothing back: when the creation of the worktree fails after the
\* branch was resolved, the branches are as the canonicalization left them,
\* a branch it created included; and no run of add removes or re-points a
\* local branch that existed before.
C30_FailedAddKeepsCreatedBranch ==
    [][ AddStep
        => /\ \A b \in DOMAIN local : b \in DOMAIN local' /\ local'[b] = local[b]
           /\ ( /\ out'.cmd = "worktree.add" /\ out'.exit = 1
                /\ resolve_or_create_branch(local, remote, out'.name,
                                            out'.start_point).ok )
                 => local' = resolve_or_create_branch(local, remote, out'.name,
                                                      out'.start_point).local
           /\ ( /\ out'.cmd = "commands.add" /\ out'.log = <<"failed">>
                /\ get_branch(local, remote, out'.name, out'.start_point, TRUE).ok )
                 => local' = get_branch(local, remote, out'.name,
                                        out'.start_point, TRUE).local ]_vars

\* add has just failed, and the branch that tracks origin/feat, which only
\* the canonicalization of a failed add can have created, is there without
\* a worktree
C30_Witness ==
    /\ out.cmd = "worktree.add" /\ out.exit = 1 /\ out.cwd = Root
    /\ out.name = <<"feat">>
    /\ <<"feat">> \in DOMAIN local
    /\ local[<<"feat">>].upstream = <<"origin", "feat">>
    /\ \A i \in 1..Len(worktrees) : worktrees[i].branch # <<"feat">>

----------------------------------------------------------------------------
(* The remove command (cli/commands/worktree.py).                          *)

\* the most worktrees named in one run of remove
MaxRemove == 2

\* worktrees named on the command line: by their path; the last names none
RemoveArgs == {Root \o <<"feat">>, Root \o <<"x">>, Root \o <<"gone">>}

RemoveLists == UNION {[1..n -> RemoveArgs] : n \in 0..MaxRemove}

\* worktrees that can have uncommitted changes when remove runs
DirtySets == SUBSET {Root \o <<"feat">>, Root \o <<"x">>}

\* worktree_remove(worktree, force=): "git worktree remove [--force]" fails
\* outside a clone, for a path that is no linked worktree, and without
\* --force for a worktree with changes
worktree_remove(wts, dir, name, force, dirty) ==
    IF dir = Outside \/ EntriesAt(wts, name) = {} \/ (name \in dirty /\ ~force)
    THEN [ok |-> FALSE, worktrees |-> wts]
    ELSE [ok |-> TRUE, worktrees |-> SelectSeq(wts, LAMBDA e : e.path # name)]

RECURSIVE remove_continues(_, _, _, _, _, _)
\* a mutant of remove: the try is inside the loop, a failure is remembered
\* and the loop goes on
remove_continues(wts, dir, names, force, dirty, attempted) ==
    IF names = << >>
    THEN [exit |-> 0, log |-> attempted, worktrees |-> wts]
    ELSE LET r == worktree_remove(wts, dir, Head(names), force, dirty)
             rest == remove_continues(r.worktrees, dir, Tail(names), force, dirty,
                                      Append(attempted, Head(names))) IN
         IF r.ok THEN rest ELSE [rest EXCEPT !.exit = 1]

RECURSIVE remove(_, _, _, _, _, _)
\* remove(worktrees, force): the loop over the names inside the try; a
\* SubprocessError leaves the loop and ends in sys.exit(1). log is the
\* names git.worktree_remove was called for
remove(wts, dir, names, force, dirty, attempted) ==
    IF names = << >>
    THEN [exit |-> 0, log |-> attempted, worktrees |-> wts]
    ELSE LET r == worktree_remove(wts, dir, Head(names), force, dirty) IN
         IF r.ok
         THEN remove(r.worktrees, dir, Tail(names), force, dirty,
                     Append(attempted, Head(names)))
         ELSE [exit |-> 1, log |-> Append(attempted, Head(names)), worktrees |-> wts]

\* the record of a run of remove
ReportRemove(names, force, dirty, dir, exit, log) ==
    [cmd |-> "remove", name |-> names, start_point |-> None, create |-> FALSE,
     cwd |-> dir, exit |-> exit, echo |-> None, log |-> log,
     force |-> force, dirty |-> dirty]

\* pygwt remove [-f] WORKTREES...
Remove(dir, names, force, dirty) ==
    LET r == remove(worktrees, dir, names, force, dirty, << >>) IN
    /\ cwd' = dir
    /\ worktrees' = r.worktrees
    /\ out' = ReportRemove(names, force, dirty, dir, r.exit, r.log)
    /\ UNCHANGED <<is_bare, remote, local, registry_file, wt_last, wt_registry, switch_module, environ, frame, procs>>

NextRemove ==
    \E dir \in {Root, Outside}, names \in RemoveLists, force \in BOOLEAN,
       dirty \in DirtySets :
        Remove(dir, names, force, dirty)

\* remove reads no branch: clones with both branches and any worktrees
InitRemove ==
    /\ InitAdd
    /\ DOMAIN local = {<<"main">>, <<"feat">>}
    /\ DOMAIN remote = {}

SpecRemove == InitRemove /\ [][NextRemove]_vars

\* the paths of the worktrees
Paths(wts) == {wts[i].path : i \in 1..Len(wts)}

\* the removal of path would fail in a run with the arguments of report
RemovalFails(wts, report, path) ==
    \/ report.cwd = Outside
    \/ path \notin Paths(wts)
    \/ path \in report.dirty /\ ~report.force

\* C12: remove(names, force) takes the names in order and stops at the
\* first removal that fails: the names attempted are those up to and
\* including the failing one, the command ends with exit code 1, every
\* worktree named before the failing one is gone and every other worktree
\* is still there; without a failure all names are attempted and removed.
C12_RemoveStopsAtFirstFailure ==
    [][ out'.cmd = "remove"
        => LET names == out'.name
               k == Len(out'.log)
               before == {names[i] : i \in 1..(k - 1)} IN
           /\ out'.log = SubSeq(names, 1, k)
           /\ IF out'.exit = 0
              THEN /\ k = Len(names)
                   /\ worktrees' = SelectSeq(worktrees,
                                       LAMBDA e : e.path \notin {names[i] : i \in 1..k})
              ELSE /\ out'.exit = 1 /\ k >= 1
                   /\ RemovalFails(worktrees', out', names[k])
                   /\ before \subseteq Paths(worktrees)
                   /\ worktrees' = SelectSeq(worktrees, LAMBDA e : e.path \notin before)
           /\ \A i \in 1..(k - 1) : ~RemovalFails(worktrees, out', names[i]) ]_vars

C12_Witness ==
    /\ out.cmd = "remove" /\ out.exit = 1 /\ ~out.force
    /\ out.name = << Root \o <<"x">>, Root \o <<"feat">> >>
    /\ out.log = << Root \o <<"x">> >>
    /\ out.dirty = {Root \o <<"x">>}
    /\ Paths(worktrees) = {Root \o <<"x">>, Root \o <<"feat">>}

----------------------------------------------------------------------------
(* The shell commands.                                                     *)

\* the value git gives GIT_DIR when it runs an alias in a bare clone
GitDir == Root \o <<".git">>

\* what Shell.detect().spawn(dest) can do: run the shell, raise in
\* shellingham.detect_shell, raise in pushd or subprocess.run
SpawnOutcomes == {"ok", "detect_raises", "spawn_raises"}

\* the record of a run of shell
ReportShell(cmd, name, start_point, create, delete, git_dir, dir, exit, log) ==
    [cmd |-> cmd, name |-> name, start_point |-> start_point, create |-> create,
     cwd |-> dir, exit |-> exit, echo |-> None, log |-> log,
     delete |-> delete, git_dir |-> git_dir]

\* cli/commands/worktree.py shell, up to the destination: the loop over
\* git.worktree_list() with the exit for create on an existing worktree,
\* then the exit for a missing worktree without create, then git.worktree_add
shell_resolve(bare, loc, rem, wts, dir, name, start_point, create, dest_free) ==
    LET found == first_on_branch(worktree_list(bare, wts), name)
        added == worktree_add(bare, loc, rem, wts, name, None, start_point, dest_free)
        same == [local |-> loc, worktrees |-> wts]
    IN
    IF dir = Outside
    THEN [ok |-> FALSE, dest |-> None, fake |-> FALSE, log |-> <<"raise">>] @@ same
    ELSE IF found # None /\ create
    THEN [ok |-> FALSE, dest |-> None, fake |-> FALSE,
          log |-> <<"found", "error", "exit">>] @@ same
    ELSE IF found # None
    THEN [ok |-> TRUE, dest |-> found, fake |-> FALSE, log |-> <<"found">>] @@ same
    ELSE IF ~create
    THEN [ok |-> FALSE, dest |-> None, fake |-> FALSE,
          log |-> <<"not_found", "error", "exit">>] @@ same
    ELSE IF added.ok
    THEN [ok |-> TRUE, dest |-> added.dest, fake |-> FALSE,
          log |-> <<"not_found", "worktree_add">>,
          local |-> added.local, worktrees |-> added.worktrees]
    ELSE [ok |-> FALSE, dest |-> None, fake |-> FALSE,
          log |-> <<"not_found", "worktree_add", "raise">>,
          local |-> added.local, worktrees |-> wts]

\* cli/commands/shell.py shell, up to the worktree: Repository() and
\* get_worktree(name, create=, start_point=); NoWorktreeError is logged and
\* ends in sys.exit(1), any other exception ends the process
shell_get_worktree(bare, loc, rem, wts, dir, name, start_point, create, dest_free) ==
    LET w == get_worktree(bare, loc, rem, wts, name, create, start_point, None, dest_free) IN
    IF dir = Outside
    THEN [ok |-> FALSE, dest |-> None, fake |-> FALSE, log |-> <<"raise">>,
          local |-> loc, worktrees |-> wts]
    ELSE [ok |-> w.ok, dest |-> w.path, fake |-> w.fake,
          log |-> IF w.ok THEN <<w.how>>
                  ELSE IF w.how = "missing" THEN <<"missing", "error", "exit">>
                  ELSE <<w.how, "raise">>,
          local |-> w.local, worktrees |-> w.worktrees]

\* shell from the destination to the spawned shell, in both modules: GIT_DIR
\* is popped from os.environ into git_dir_env, then Shell.detect().spawn(dest)
\* either blocks in the child shell (the frame stays) or raises, which ends
\* the process with exit code 1 before the lines that restore GIT_DIR
shell_spawn(cmd, r, dir, name, start_point, create, delete, git_dir, spawn) ==
    LET report(exit, steps) ==
            ReportShell(cmd, name, start_point, create, delete, git_dir, dir,
                        exit, r.log \o steps) IN
    IF ~r.ok
    THEN [environ |-> git_dir, frame |-> NoFrame, ended |-> TRUE,
          out |-> report(1, << >>)]
    ELSE IF spawn = "detect_raises"
    THEN [environ |-> None, frame |-> NoFrame, ended |-> TRUE,
          out |-> report(1, <<"pop", "detect", "raise">>)]
    ELSE IF spawn = "spawn_raises"
    THEN [environ |-> None, frame |-> NoFrame, ended |-> TRUE,
          out |-> report(1, <<"pop", "detect", "spawn", "raise">>)]
    ELSE [environ |-> None, ended |-> FALSE,
          frame |-> [pc |-> "spawned", git_dir_env |-> git_dir, dest |-> r.dest,
                     fake |-> r.fake],
          out |-> report(0, <<"pop", "detect", "spawn">>)]

\* shell after the child shell has exited: GIT_DIR is set again when
\* git_dir_env is not None; with create and delete the worktree is removed,
\* by git.worktree_remove(str(dest)) in cli/commands/worktree.py and by
\* shutil.rmtree and worktree.prune() (not for a FakeWorktree) in
\* cli/commands/shell.py; a removal that raises ends the process with exit
\* code 1
shell_return(wts, fr, rep, removal) ==
    LET env == IF fr.git_dir_env # None THEN fr.git_dir_env ELSE None
        restored == rep.log \o (IF fr.git_dir_env # None THEN <<"restore">> ELSE << >>)
        deletes == IF rep.cmd = "worktree.shell" THEN rep.create /\ rep.delete
                   ELSE rep.create /\ rep.delete /\ ~fr.fake
        gone == SelectSeq(wts, LAMBDA e : e.path # fr.dest)
    IN
    IF ~deletes
    THEN [environ |-> env, worktrees |-> wts,
          out |-> [rep EXCEPT !.exit = 0, !.log = restored \o <<"return">>]]
    ELSE IF removal
    THEN [environ |-> env, worktrees |-> gone,
          out |-> [rep EXCEPT !.exit = 0, !.log = restored \o <<"remove", "return">>]]
    ELSE [environ |-> env, worktrees |-> wts,
          out |-> [rep EXCEPT !.exit = 1, !.log = restored \o <<"remove", "raise">>]]

\* pygwt shell NAME [START_POINT] [-c] [-d] (cli/commands/worktree.py) is
\* started in dir with GIT_DIR as git_dir
ShellStart(dir, name, start_point, create, delete, dest_free, git_dir, spawn) ==
    LET r == shell_resolve(is_bare, local, remote, worktrees, dir, name,
                           start_point, create, dest_free)
        e == shell_spawn("worktree.shell", r, dir, name, start_point, create,
                         delete, git_dir, spawn) IN
    /\ frame.pc = "none"
    /\ cwd' = dir
    /\ local' = r.local
    /\ worktrees' = r.worktrees
    /\ environ' = e.environ
    /\ frame' = e.frame
    /\ out' = e.out
    /\ UNCHANGED <<is_bare, remote, registry_file, wt_last, wt_registry, switch_module, procs>>

\* pygwt shell NAME [START_POINT] [-c] [-d] (cli/commands/shell.py) is
\* started in dir with GIT_DIR as git_dir
ShellStartGetWorktree(dir, name, start_point, create, delete, dest_free, git_dir, spawn) ==
    LET r == shell_get_worktree(is_bare, local, remote, worktrees, dir, name,
                                start_point, create, dest_free)
        e == shell_spawn("shell.shell", r, dir, name, start_point, create,
                         delete, git_dir, spawn) IN
    /\ frame.pc = "none"
    /\ cwd' = dir
    /\ local' = r.local
    /\ worktrees' = r.worktrees
    /\ environ' = e.environ
    /\ frame' = e.frame
    /\ out' = e.out
    /\ UNCHANGED <<is_bare, remote, registry_file, wt_last, wt_registry, switch_module, procs>>

\* the child shell exits and shell runs to its end
ShellReturn(removal) ==
    LET e == shell_return(worktrees, frame, out, removal) IN
    /\ frame.pc = "spawned"
    /\ worktrees' = e.worktrees
    /\ environ' = e.environ
    /\ frame' = NoFrame
    /\ out' = e.out
    /\ UNCHANGED <<is_bare, remote, local, cwd, registry_file, wt_last, wt_registry,
                   switch_module, procs>>

\* branches are created from HEAD and at a free destination
NextShell ==
    \/ \E dir \in {Root, Outside}, name \in SwitchArgs, git_dir \in {None, GitDir},
          spawn \in SpawnOutcomes, create \in BOOLEAN, delete \in BOOLEAN :
          \/ ShellStart(dir, name, None, create, delete, TRUE, git_dir, spawn)
          \/ ShellStartGetWorktree(dir, name, None, create, delete, TRUE, git_dir, spawn)
    \/ \E removal \in BOOLEAN : ShellReturn(removal)

\* clones of an origin that has both branches
InitShell ==
    /\ InitAdd
    /\ <<"origin", "feat">> \in DOMAIN remote

SpecShell == InitShell /\ [][NextShell]_vars

\* the step just taken started a shell command
ShellStartStep == frame.pc = "none" /\ out'.cmd \in {"worktree.shell", "shell.shell"}

\* the step just taken ended a shell command
ShellEndStep == frame'.pc = "none" /\ out'.cmd \in {"worktree.shell", "shell.shell"}

\* C13: shell(name, create=true), started inside the clone, for a name that
\* a listed worktree has checked out fails fast: exit code 1, no shell is
\* spawned, and branches and worktrees stay as they were.
C13_CreateOnExistingWorktreeFailsFast ==
    [][ ( /\ ShellStartStep /\ out'.create /\ out'.cwd # Outside
          /\ out'.name \in ListedBranches(is_bare, worktrees) )
        => ( /\ out'.exit = 1 /\ frame'.pc = "none"
             /\ Position(out'.log, "spawn") = 0
             /\ local' = local /\ worktrees' = worktrees ) ]_vars

\* C14: GIT_DIR is absent while the spawned shell runs, and whenever shell
\* ends after it took GIT_DIR out of the environment, by returning or by an
\* exception of the detection or the spawn, GIT_DIR is back at the value
\* it had when shell was called, or absent if it was absent.
C14_GitDirRestoredOnEveryExit ==
    [][ /\ frame'.pc = "spawned" => environ' = None
        /\ (ShellEndStep /\ Position(out'.log, "pop") # 0)
           => environ' = out'.git_dir ]_vars

\* C15: with create and delete both set the worktree is removed after the
\* spawned shell has exited, and a removal that fails is only logged: the
\* command still ends with exit code 0.
C15_FailedCleanupIsNotFatal ==
    [][ ( /\ frame.pc = "spawned" /\ ShellEndStep
          /\ out'.cmd = "worktree.shell" /\ out'.create /\ out'.delete )
        => ( /\ Position(out'.log, "remove") # 0
             /\ out'.exit = 0 ) ]_vars

\* C25: whatever the create and delete flags, the removal after the spawned
\* shell has exited takes away nothing but the worktree this invocation
\* added: an invocation that found its worktree leaves the worktrees as they
\* are, and one that added it removes at most the one at its destination.
C25_ShellRemovesOnlyItsOwnWorktree ==
    [][ (frame.pc = "spawned" /\ ShellEndStep)
        => IF Position(out'.log, "created") = 0 /\ Position(out'.log, "worktree_add") = 0
           THEN worktrees' = worktrees
           ELSE Paths(worktrees) \ Paths(worktrees') \subseteq {frame.dest} ]_vars

\* non-bare clones of an origin with both branches whose linked worktrees
\* may have any local branch checked out, the branch of the root included
\* (git worktree add --force)
InitRootBranch ==
    /\ is_bare = FALSE
    /\ local \in LocalConfigs
    /\ HeadBranch \in DOMAIN local
    /\ remote \in SwitchRemoteConfigs
    /\ <<"origin", "feat">> \in DOMAIN remote
    /\ worktrees \in WorktreeConfigs
    /\ \A i \in 1..Len(worktrees) : worktrees[i].branch \in DOMAIN local \cup {Detached}
    /\ cwd = Root
    /\ registry_file = NoFile
    /\ wt_last = None
    /\ wt_registry = None
    /\ environ = None /\ frame = NoFrame /\ procs = NoProcs
    /\ switch_module = "worktree"
    /\ out = Idle

SpecRootBranch == InitRootBranch /\ [][NextShell]_vars

\* C29: get_worktree for the branch checked out at the root of a non-bare
\* clone, called by shell with any create flag, returns the root itself and
\* creates no branch and no worktree, and nothing is deleted after the
\* spawned shell has exited, whatever the delete flag.
C29_RootBranchReturnsRoot ==
    [][ /\ ( /\ ShellStartStep /\ out'.cmd = "shell.shell" /\ ~is_bare
             /\ out'.name = HeadBranch /\ out'.cwd # Outside )
            => ( /\ local' = local /\ worktrees' = worktrees
                 /\ frame'.pc = "spawned" => frame'.dest = Root )
        /\ ( /\ frame.pc = "spawned" /\ ShellEndStep /\ out'.cmd = "shell.shell"
             /\ ~is_bare /\ out'.name = HeadBranch )
            => worktrees' = worktrees ]_vars

----------------------------------------------------------------------------
(* The registry inside running invocations (config.py).                    *)

\* Registry() calls one invocation makes at most
MaxAcquire == 2

\* entries the list of repositories grows to at most
MaxRepositories == 2

\* the invocations that may run side by side
Invocations == {"p1", "p2"}

\* an invocation that has not called Registry(): no instance, no atexit hook
NewProcess ==
    [state |-> "new", instance |-> FALSE, registry |-> RegistryDefaults,
     hooks |-> 0, writes |-> 0]

\* Registry(): __new__ keeps the one instance, __init__ then runs on it, reads
\* the file (or takes the defaults) into its fields and registers one more hook
Registry_call(proc, file) ==
    [proc EXCEPT !.state = "running", !.instance = TRUE,
                 !.registry = RegistryLoad(file), !.hooks = @ + 1]

\* a mutant of atexit_run: a file already on disk is left as it is
atexit_run_keeps_file(proc, file) ==
    IF proc.hooks = 0 \/ DOMAIN file # {} THEN file ELSE RegistrySave(proc.registry)

\* interpreter exit: every registered hook writes the instance to the file
atexit_run(proc, file) ==
    IF proc.hooks = 0 THEN file ELSE RegistrySave(proc.registry)

\* what a step of an invocation leaves behind
ReportRegistry(cmd, p, exit) == [cmd |-> cmd, proc |-> p, exit |-> exit]

\* an invocation calls Registry(); a finished one is started afresh first
Acquire(p) ==
    LET proc == IF procs[p].state \in {"exited", "killed"} THEN NewProcess ELSE procs[p]
    IN  /\ proc.hooks < MaxAcquire
        /\ procs' = [procs EXCEPT ![p] = Registry_call(proc, registry_file)]
        /\ out' = ReportRegistry("Registry", p, 0)
        /\ UNCHANGED <<is_bare, remote, local, worktrees, cwd, registry_file, wt_last, wt_registry,
                       switch_module, environ, frame>>

\* switch: config.last_worktree = Path.cwd()
SetLastWorktree(p, path) ==
    /\ procs[p].state = "running"
    /\ procs' = [procs EXCEPT ![p].registry.last_worktree = path]
    /\ out' = ReportRegistry("last_worktree", p, 0)
    /\ UNCHANGED <<is_bare, remote, local, worktrees, cwd, registry_file, wt_last, wt_registry,
                   switch_module, environ, frame>>

\* repository switch: config.last_repository = Path.cwd()
SetLastRepository(p, path) ==
    /\ procs[p].state = "running"
    /\ procs' = [procs EXCEPT ![p].registry.last_repository = path]
    /\ out' = ReportRegistry("last_repository", p, 0)
    /\ UNCHANGED <<is_bare, remote, local, worktrees, cwd, registry_file, wt_last, wt_registry,
                   switch_module, environ, frame>>

\* clone, repository register: repositories.append(path)
Register(p, path) ==
    /\ procs[p].state = "running"
    /\ Len(procs[p].registry.repositories) < MaxRepositories
    /\ procs' = [procs EXCEPT ![p].registry.repositories = Append(@, path)]
    /\ out' = ReportRegistry("register", p, 0)
    /\ UNCHANGED <<is_bare, remote, local, worktrees, cwd, registry_file, wt_last, wt_registry,
                   switch_module, environ, frame>>

\* the interpreter exits (return, sys.exit(code), an uncaught exception): the
\* atexit hooks run
Exit(p, code) ==
    /\ procs[p].state \in {"new", "running"}
    /\ registry_file' = atexit_run(procs[p], registry_file)
    /\ procs' = [procs EXCEPT ![p].state = "exited", ![p].writes = procs[p].hooks]
    /\ out' = ReportRegistry("exit", p, code)
    /\ UNCHANGED <<is_bare, remote, local, worktrees, cwd, wt_last, wt_registry,
                   switch_module, environ, frame>>

\* the process is killed: no atexit hook runs
Kill(p) ==
    /\ procs[p].state \in {"new", "running"}
    /\ procs' = [procs EXCEPT ![p].state = "killed"]
    /\ out' = ReportRegistry("kill", p, 1)
    /\ UNCHANGED <<is_bare, remote, local, worktrees, cwd, registry_file, wt_last, wt_registry,
                   switch_module, environ, frame>>

\* one repository, no registry file yet, the given invocations not started
InitInvocations(ps) ==
    /\ is_bare = FALSE
    /\ remote = EmptyBranches
    /\ local = (HeadBranch :> [target |-> "c4", upstream |-> None])
    /\ worktrees = << >>
    /\ cwd = Root
    /\ registry_file = NoFile
    /\ wt_last = None
    /\ wt_registry = None
    /\ environ = None /\ frame = NoFrame
    /\ procs = [p \in ps |-> NewProcess]
    /\ switch_module = "worktree"
    /\ out = Idle

\* invocations one after the other
InitRegistry == InitInvocations({"p1"})

NextRegistry ==
    \E p \in DOMAIN procs, path \in {Root, Outside}, code \in {0, 1} :
        \/ Acquire(p)
        \/ SetLastWorktree(p, path)
        \/ SetLastRepository(p, Root)
        \/ Register(p, path)
        \/ Exit(p, code)
        \/ Kill(p)

SpecRegistry == InitRegistry /\ [][NextRegistry]_vars

\* two invocations side by side
InitRace == InitInvocations(Invocations)

NextRace ==
    \E p \in DOMAIN procs :
        \/ Acquire(p)
        \/ SetLastWorktree(p, Root)
        \/ Register(p, Outside)
        \/ Exit(p, 0)

SpecRace == InitRace /\ [][NextRace]_vars

----------------------------------------------------------------------------
(* Properties of the registry.                                             *)

\* the step is a Registry() call of an invocation that already holds the instance
LaterRegistryCall ==
    /\ out'.cmd = "Registry"
    /\ procs[out'.proc].state = "running"

\* the step is the first Registry() call of a fresh invocation
FirstRegistryCall ==
    /\ out'.cmd = "Registry"
    /\ procs[out'.proc].state # "running"

\* C17: a later Registry() call in the same invocation hands back the instance
\* with the fields as the invocation left them: nothing is re-read or reset.
C17_LaterRegistryCallKeepsMutations ==
    [][LaterRegistryCall
        => procs'[out'.proc].registry = procs[out'.proc].registry]_vars

\* C18: an invocation that acquired the Registry writes the file exactly once,
\* when it ends normally, however often it called Registry(); no step before
\* the end of an invocation and no kill writes the file.
C18_WrittenExactlyOnceAtNormalExit ==
    [][/\ (out'.cmd = "exit" /\ out'.exit = 0 /\ procs[out'.proc].hooks > 0)
            => procs'[out'.proc].writes = 1
       /\ out'.cmd # "exit" => registry_file' = registry_file]_vars

\* C19: what an invocation holds in memory when it ends is exactly what the
\* first Registry() call of the next invocation loads (the three fields, the
\* list with its order and duplicates); without a file that call yields
\* last_worktree unset, last_repository unset and no repositories.
C19_RegistryRoundTrip ==
    [][/\ (out.cmd = "exit" /\ procs[out.proc].hooks > 0 /\ FirstRegistryCall)
            => procs'[out'.proc].registry = procs[out.proc].registry
       /\ (registry_file = NoFile /\ out'.cmd = "Registry")
            => procs'[out'.proc].registry =
                   [last_worktree |-> None, last_repository |-> None,
                    repositories |-> << >>]]_vars

\* a fresh invocation has just loaded both remembered places and a list of
\* repositories holding the same path twice
C19_Witness ==
    /\ out.cmd = "Registry"
    /\ procs["p1"].hooks = 1
    /\ procs["p1"].registry =
           [last_worktree |-> Outside, last_repository |-> Root,
            repositories |-> <<Outside, Outside>>]

\* C20: when an invocation that acquired the Registry ends, the file becomes
\* that invocation's in-memory state whatever another invocation wrote before:
\* the last one to exit wins and the earlier one's update is gone.
C20_LastExitWins ==
    [][(out'.cmd = "exit" /\ procs[out'.proc].hooks > 0)
        => RegistryLoad(registry_file') = procs[out'.proc].registry]_vars

\* both invocations have ended, p2 last; p1 had registered a repository and
\* written it, and the file no longer has it
C20_Witness ==
    /\ procs["p1"].state = "exited" /\ procs["p2"].state = "exited"
    /\ out.cmd = "exit" /\ out.proc = "p2"
    /\ procs["p1"].writes > 0
    /\ procs["p1"].registry.repositories = <<Outside>>
    /\ procs["p2"].registry.last_worktree = Root
    /\ RegistryLoad(registry_file) =
           [last_worktree |-> Root, last_repository |-> None,
            repositories |-> << >>]

----------------------------------------------------------------------------
(* The repository commands: register.                                      *)

\* a second clone, at "/a,b": a directory name may hold a comma
CommaRoot == <<"a,b">>

\* the directories register is called on: a clone's root, a linked worktree of
\* it, the second clone, a directory outside of any repository
RegisterPaths == {Root, Root \o <<"feat">>, CommaRoot, Outside}

\* Path.parent; the parent of "/" is "/"
parent(path) == IF path = << >> THEN << >> ELSE SubSeq(path, 1, Len(path) - 1)

\* path lies in directory dir
Below(dir, path) ==
    /\ Len(path) >= Len(dir)
    /\ SubSeq(path, 1, Len(dir)) = dir

\* the clone a directory belongs to on this filesystem, None for no clone
RepositoryRootOf(path) ==
    IF Below(Root, path) THEN Root
    ELSE IF Below(CommaRoot, path) THEN CommaRoot
    ELSE None

\* git.git_dir(common=True) run in directory path: the shared metadata
\* directory of the clone, None for the GitExecError outside of a clone
git_dir_common(path) ==
    IF RepositoryRootOf(path) = None THEN None
    ELSE RepositoryRootOf(path) \o <<".git">>

\* pygit2.Repository(path).path: the metadata directory of the checkout at
\* path, under .git/worktrees for a linked worktree; None for the GitError
repository_path(path) ==
    IF RepositoryRootOf(path) = None THEN None
    ELSE IF path = RepositoryRootOf(path) THEN path \o <<".git">>
    ELSE RepositoryRootOf(path) \o <<".git", "worktrees">> \o
             SubSeq(path, Len(RepositoryRootOf(path)) + 1, Len(path))

\* Repository.root of a metadata directory that lies in a ".git" directory
RECURSIVE root(_)
root(path) ==
    IF path[Len(path)] = ".git" THEN parent(path) ELSE root(parent(path))

\* the text of one path segment, character by character as far as the comma
\* matters
segment_text(segment) ==
    IF segment = "a,b" THEN <<"a", ",", "b">> ELSE <<segment>>

\* Path.as_posix(): the text of an absolute path
RECURSIVE as_posix(_)
as_posix(path) ==
    IF path = << >> THEN << >>
    ELSE as_posix(parent(path)) \o <<"/">> \o segment_text(path[Len(path)])

\* str.strip()
RECURSIVE strip(_)
strip(text) ==
    IF text = << >> THEN text
    ELSE IF text[1] = " " THEN strip(Tail(text))
    ELSE IF text[Len(text)] = " " THEN strip(SubSeq(text, 1, Len(text) - 1))
    ELSE text

\* ",".join(entries)
RECURSIVE join(_)
join(entries) ==
    IF entries = << >> THEN << >>
    ELSE IF Len(entries) = 1 THEN entries[1]
    ELSE entries[1] \o <<",">> \o join(Tail(entries))

\* str.split(","): the empty text splits into one empty entry
RECURSIVE split(_)
split(text) ==
    IF \A i \in 1..Len(text) : text[i] # ","
    THEN <<text>>
    ELSE LET i == CHOOSE k \in 1..Len(text) :
                      text[k] = "," /\ \A j \in 1..(k - 1) : text[j] # ","
         IN  <<SubSeq(text, 1, i - 1)>> \o split(SubSeq(text, i + 1, Len(text)))

\* _read_registry: the entries of "wt.registry", none when the key is unset
read_registry(config) ==
    IF config = None THEN << >> ELSE split(config[1])

\* _write_registry: the stripped entries joined by commas
write_registry(registry) ==
    << join([i \in 1..Len(registry) |-> strip(registry[i])]) >>

\* repository/register.py register: open the repository, append its root
register_config(config, path) ==
    IF repository_path(path) = None
    THEN [config |-> config, exit |-> 1]
    ELSE [config |-> write_registry(
                         read_registry(config) \o <<as_posix(root(repository_path(path)))>>),
          exit |-> 0]

\* repository.py register: append the parent of the shared metadata directory
register(registry, path) ==
    IF git_dir_common(path) = None
    THEN [registry |-> registry, exit |-> 1]
    ELSE [registry |-> [registry EXCEPT !.repositories =
                            Append(@, parent(git_dir_common(path)))],
          exit |-> 0]

\* what a repository command leaves behind
ReportRepository(cmd, path, dir, exit, echo) ==
    [cmd |-> cmd, path |-> path, cwd |-> dir, exit |-> exit, echo |-> echo]

\* one run of repository.py register: Registry(), the command, the atexit hook
RepositoryRegister(path) ==
    LET proc == Registry_call(NewProcess, registry_file)
        r == register(proc.registry, path)
    IN  /\ Len(proc.registry.repositories) < MaxRepositories
        /\ registry_file' = atexit_run([proc EXCEPT !.registry = r.registry], registry_file)
        /\ out' = ReportRepository("repository.register", path, cwd, r.exit, None)
        /\ UNCHANGED <<is_bare, remote, local, worktrees, cwd, wt_last, wt_registry,
                       switch_module, environ, frame, procs>>

\* one run of repository/register.py register
RegisterConfig(path) ==
    LET r == register_config(wt_registry, path)
    IN  /\ Len(read_registry(wt_registry)) < MaxRepositories
        /\ wt_registry' = r.config
        /\ out' = ReportRepository("register.register", path, cwd, r.exit, None)
        /\ UNCHANGED <<is_bare, remote, local, worktrees, cwd, registry_file, wt_last,
                       switch_module, environ, frame, procs>>

InitRegister == InitInvocations({})

NextRegister ==
    \E path \in RegisterPaths :
        \/ RepositoryRegister(path)
        \/ RegisterConfig(path)

SpecRegister == InitRegister /\ [][NextRegister]_vars

\* the repositories the registry file holds
RepositoriesOnFile(file) == RegistryLoad(file).repositories

\* C21: register on a directory inside a clone ends with exit code 0 and the
\* registered repositories are the earlier ones, in their order, followed by
\* that clone's root (also when it was listed before); register on a
\* directory outside of any clone ends with exit code 1 and the registered
\* repositories are as before.
C21_RegisterAppendsRoot ==
    [][/\ out'.cmd = "repository.register"
            => IF RepositoryRootOf(out'.path) # None
               THEN /\ out'.exit = 0
                    /\ RepositoriesOnFile(registry_file') =
                           Append(RepositoriesOnFile(registry_file),
                                  RepositoryRootOf(out'.path))
               ELSE /\ out'.exit = 1
                    /\ RepositoriesOnFile(registry_file') =
                           RepositoriesOnFile(registry_file)
       /\ out'.cmd = "register.register"
            => IF RepositoryRootOf(out'.path) # None
               THEN /\ out'.exit = 0
                    /\ read_registry(wt_registry') =
                           Append(read_registry(wt_registry),
                                  as_posix(RepositoryRootOf(out'.path)))
               ELSE /\ out'.exit = 1
                    /\ read_registry(wt_registry') = read_registry(wt_registry)]_vars

----------------------------------------------------------------------------
(* The repository commands: switch (cli/commands/repository.py).           *)

\* the REPOSITORY argument: a clone's root, a directory that is no clone, "-"
RepositoryArgs == {Root, CommaRoot, Outside, Dash}

\* the WORKTREE argument: omitted, a branch checked out in the clone, one
\* that is not
WorktreeArgs == {None, <<"main">>, <<"feat">>}

\* the worktrees git.worktree_list() shows inside the registered clone dest
worktrees_of(bare, wts, dest) ==
    IF dest = Root THEN worktree_list(bare, wts) ELSE << >>

\* a mutant of repository_switch: the destination is remembered
repository_switch_remembers_dest(registry, bare, wts, dir, repository, worktree) ==
    LET listed == {i \in 1..Len(registry.repositories) :
                       registry.repositories[i] = repository}
        there == first_on_branch(worktrees_of(bare, wts, repository), worktree)
        dest == IF worktree # None /\ there # None THEN there ELSE repository
    IN
    IF repository = Dash
    THEN IF registry.last_repository = None
         THEN [registry |-> registry, exit |-> 1, echo |-> None]
         ELSE [registry |-> registry, exit |-> 0, echo |-> registry.last_repository]
    ELSE IF listed = {}
    THEN [registry |-> registry, exit |-> 1, echo |-> None]
    ELSE [registry |-> [registry EXCEPT !.last_repository = dest],
          exit |-> 0, echo |-> dest]

\* repository switch REPOSITORY [WORKTREE] run in dir: "-" is answered by the
\* callback of the argument; else the registered path equal to REPOSITORY is
\* looked up, the worktree of that clone on WORKTREE taken when there is one,
\* the destination echoed and, inside a clone, the directory remembered
repository_switch(registry, bare, wts, dir, repository, worktree) ==
    LET listed == {i \in 1..Len(registry.repositories) :
                       registry.repositories[i] = repository}
        there == first_on_branch(worktrees_of(bare, wts, repository), worktree)
        dest == IF worktree # None /\ there # None THEN there ELSE repository
    IN
    IF repository = Dash
    THEN IF registry.last_repository = None
         THEN [registry |-> registry, exit |-> 1, echo |-> None]
         ELSE [registry |-> registry, exit |-> 0, echo |-> registry.last_repository]
    ELSE IF listed = {}
    THEN [registry |-> registry, exit |-> 1, echo |-> None]
    ELSE IF git_dir_common(dir) = None
    THEN [registry |-> registry, exit |-> 0, echo |-> dest]
    ELSE [registry |-> [registry EXCEPT !.last_repository = dir],
          exit |-> 0, echo |-> dest]

\* one run of repository switch: Registry(), the command, the atexit hook
RepositorySwitch(dir, repository, worktree) ==
    LET proc == Registry_call(NewProcess, registry_file)
        r == repository_switch(proc.registry, is_bare, worktrees, dir, repository, worktree)
    IN  /\ cwd' = dir
        /\ registry_file' = atexit_run([proc EXCEPT !.registry = r.registry], registry_file)
        /\ out' = ReportRepository("repository.switch", repository, dir, r.exit, r.echo)
        /\ UNCHANGED <<is_bare, remote, local, worktrees, wt_last, wt_registry,
                       switch_module, environ, frame, procs>>

InitRepositorySwitch == InitInvocations({})

NextRepositorySwitch ==
    \/ \E path \in RegisterPaths : RepositoryRegister(path)
    \/ \E dir \in RegisterPaths, repository \in RepositoryArgs, worktree \in WorktreeArgs :
          RepositorySwitch(dir, repository, worktree)

SpecRepositorySwitch == InitRepositorySwitch /\ [][NextRepositorySwitch]_vars

\* the registry's last_repository as the file holds it
LastRepositoryOnFile(file) == RegistryLoad(file).last_repository

\* the path is one of the registered repositories
Registered(file, path) ==
    \E i \in 1..Len(RepositoriesOnFile(file)) : RepositoriesOnFile(file)[i] = path

----------------------------------------------------------------------------
(* Repository.root (git.py), iteration by iteration.                       *)

\* a bare repository that is not kept in a directory named ".git"
BareRepository == <<"srv", "repo.git">>

\* names of linked worktrees, as the directories under worktrees/
WorktreeNames == {<<"feat">>, <<"main">>, <<"sha1">>}

\* the metadata directories pygit2 gives as Repository.path: the .git
\* directory of a clone, the directory of a linked worktree below it, a bare
\* repository of any name and a linked worktree of it
MetadataPaths ==
    {Root \o <<".git">>, CommaRoot \o <<".git">>, BareRepository}
    \cup {Root \o <<".git", "worktrees">> \o n : n \in WorktreeNames}
    \cup {CommaRoot \o <<".git", "worktrees">> \o n : n \in WorktreeNames}
    \cup {BareRepository \o <<"worktrees">> \o n : n \in WorktreeNames}

\* Path.name: the last component, "" for "/"
name_of(path) == IF path = << >> THEN "" ELSE path[Len(path)]

\* the directory that holds the metadata of the clone: the one containing
\* its ".git" directory, or a bare repository itself
ContainingDirectory(metadata) ==
    IF Below(Root, metadata) THEN Root
    ELSE IF Below(CommaRoot, metadata) THEN CommaRoot
    ELSE BareRepository

\* what a call of Repository.root leaves behind
ReportRoot(metadata, result) ==
    [cmd |-> "root", path |-> metadata, echo |-> result]

\* "path = Path(self.path)"
RootStart(metadata) ==
    /\ frame.pc = "none"
    /\ frame' = [pc |-> "root", metadata |-> metadata, path |-> metadata]
    /\ UNCHANGED <<is_bare, remote, local, worktrees, cwd, registry_file, wt_last,
                   wt_registry, switch_module, environ, procs, out>>

\* one test of "while path.name != '.git'": the body "path = path.parent",
\* or the loop is left and path.parent returned
RootLoop ==
    /\ frame.pc = "root"
    /\ IF name_of(frame.path) # ".git"
       THEN /\ frame' = [frame EXCEPT !.path = parent(frame.path)]
            /\ out' = out
       ELSE /\ frame' = NoFrame
            /\ out' = ReportRoot(frame.metadata, parent(frame.path))
    /\ UNCHANGED <<is_bare, remote, local, worktrees, cwd, registry_file, wt_last,
                   wt_registry, switch_module, environ, procs>>

InitRoot == InitInvocations({})

NextRoot ==
    \/ \E metadata \in MetadataPaths : RootStart(metadata)
    \/ RootLoop

\* the loop runs on while it can
SpecRoot == InitRoot /\ [][NextRoot]_vars /\ WF_vars(RootLoop)

\* C28: every call of Repository.root comes to an end, for a metadata path
\* of a clone, of a linked worktree and of a repository without a path
\* component named ".git", and the path it returns is the directory that
\* holds the repository's metadata directory.
C28_RootTerminates ==
    /\ (frame.pc = "root") ~> (frame.pc = "none")
    /\ [][out'.cmd = "root" /\ out' # out
            => out'.echo = ContainingDirectory(out'.path)]_vars

----------------------------------------------------------------------------
(* Scoped directory changes (misc.py).                                     *)

\* pushd scopes open at the same time at most
MaxDepth == 2

\* the directories a scope changes to
PushdDirs == {Root, Root \o <<"feat">>, Outside}

\* pushd.__init__: the directory at construction and the destination
pushd_init(dir, path) == [origin |-> dir, dest |-> path]

\* pushd.__enter__: remember the directory, change to the destination
pushd_enter(scope, dir) ==
    [scope |-> [scope EXCEPT !.origin = dir], cwd |-> scope.dest]

\* a mutant of pushd_exit: the directory is left where the body put it
pushd_exit_stays(scope, dir) == dir

\* pushd.__exit__, for a normal and for a raising body alike: change back
pushd_exit(scope, dir) == scope.origin

\* Shell.spawn: subprocess.run inside a pushd scope; the directory after it
spawn(dir, path) ==
    LET e == pushd_enter(pushd_init(dir, path), dir)
    IN  pushd_exit(e.scope, e.cwd)

\* what a step of a scope leaves behind: left is the directory it was in
ReportPushd(cmd, left, raised) == [cmd |-> cmd, left |-> left, raised |-> raised]

\* with pushd(path): the scope is entered, or os.chdir (or mkdir) raises
PushdEnter(path, ok) ==
    /\ frame.pc = "run"
    /\ Len(frame.scopes) < MaxDepth
    /\ LET e == pushd_enter(pushd_init(cwd, path), cwd)
       IN  IF ok
           THEN /\ cwd' = e.cwd
                /\ frame' = [frame EXCEPT !.scopes =
                                Append(@, [scope |-> e.scope, entry |-> cwd])]
           ELSE /\ cwd' = cwd
                /\ frame' = [frame EXCEPT !.pc = "raise"]
    /\ out' = ReportPushd("pushd.__enter__", cwd, ~ok)
    /\ UNCHANGED <<is_bare, remote, local, worktrees, registry_file, wt_last, wt_registry,
                   switch_module, environ, procs>>

\* the body of the innermost scope raises (a failed git call, a failed spawn)
BodyRaises ==
    /\ frame.pc = "run"
    /\ Len(frame.scopes) > 0
    /\ frame' = [frame EXCEPT !.pc = "raise"]
    /\ out' = ReportPushd("raise", cwd, TRUE)
    /\ UNCHANGED <<is_bare, remote, local, worktrees, cwd, registry_file, wt_last,
                   wt_registry, switch_module, environ, procs>>

\* the innermost scope ends, by the end of its body or by the exception
PushdExit ==
    /\ Len(frame.scopes) > 0
    /\ cwd' = pushd_exit(frame.scopes[Len(frame.scopes)].scope, cwd)
    /\ frame' = [frame EXCEPT !.scopes = SubSeq(@, 1, Len(@) - 1)]
    /\ out' = ReportPushd("pushd.__exit__", cwd, frame.pc = "raise")
    /\ UNCHANGED <<is_bare, remote, local, worktrees, registry_file, wt_last, wt_registry,
                   switch_module, environ, procs>>

\* an except clause around the scopes left so far takes the exception
Catch ==
    /\ frame.pc = "raise"
    /\ frame' = [frame EXCEPT !.pc = "run"]
    /\ out' = ReportPushd("except", cwd, FALSE)
    /\ UNCHANGED <<is_bare, remote, local, worktrees, cwd, registry_file, wt_last,
                   wt_registry, switch_module, environ, procs>>

\* Shell.spawn(path) as a whole, subprocess.run returning or raising
Spawn(path, raises) ==
    /\ frame.pc = "run"
    /\ cwd' = spawn(cwd, path)
    /\ frame' = [frame EXCEPT !.pc = IF raises THEN "raise" ELSE "run"]
    /\ out' = ReportPushd("Shell.spawn", cwd, raises)
    /\ UNCHANGED <<is_bare, remote, local, worktrees, registry_file, wt_last, wt_registry,
                   switch_module, environ, procs>>

InitPushd ==
    /\ is_bare = FALSE
    /\ remote = EmptyBranches
    /\ local = (HeadBranch :> [target |-> "c4", upstream |-> None])
    /\ worktrees = << >>
    /\ cwd \in PushdDirs
    /\ registry_file = NoFile
    /\ wt_last = None
    /\ wt_registry = None
    /\ environ = None
    /\ frame = [pc |-> "run", scopes |-> << >>]
    /\ procs = NoProcs
    /\ switch_module = "worktree"
    /\ out = Idle

NextPushd ==
    \E path \in PushdDirs, flag \in BOOLEAN :
        \/ PushdEnter(path, flag)
        \/ BodyRaises
        \/ PushdExit
        \/ Catch
        \/ Spawn(path, flag)

SpecPushd == InitPushd /\ [][NextPushd]_vars

\* C22: when a pushd scope ends, by the end of its body or by an exception
\* passing through it, nested or not, the working directory is the one the
\* process had when the scope was entered; Shell.spawn leaves the working
\* directory as it found it, whether the spawn returns or raises.
C22_ScopeRestoresWorkingDirectory ==
    [][/\ out'.cmd = "pushd.__exit__"
            => cwd' = frame.scopes[Len(frame.scopes)].entry
       /\ out'.cmd = "Shell.spawn" => cwd' = cwd]_vars

\* an exception has just left the inner of two nested scopes: the process is
\* back in the directory of the outer scope, which is not the one it left
C22_Witness ==
    /\ out.cmd = "pushd.__exit__" /\ out.raised
    /\ frame.pc = "raise"
    /\ Len(frame.scopes) = 1
    /\ cwd = frame.scopes[1].scope.dest
    /\ cwd # out.left
    /\ cwd # frame.scopes[1].entry

----------------------------------------------------------------------------
(* Exit codes of add, switch, remove and shell (cli/commands/worktree.py). *)

\* clones with both branches and no remote
InitExit == InitRemove

\* the four commands, branches created from HEAD at a free or taken place
NextExit ==
    \/ /\ frame.pc = "none"
       /\ \E dir \in {Root, Outside}, name \in SwitchArgs :
             \/ \E dest_free \in BOOLEAN : Add(dir, name, None, None, dest_free)
             \/ \E create \in BOOLEAN : Switch(dir, name, None, create, TRUE)
             \/ Switch(dir, Dash, None, FALSE, TRUE)
             \/ \E create \in BOOLEAN, delete \in BOOLEAN, spawn_outcome \in SpawnOutcomes :
                   ShellStart(dir, name, None, create, delete, TRUE, None, spawn_outcome)
             \/ \E force \in BOOLEAN, dirty \in {{}, {Root \o name}} :
                   Remove(dir, <<Root \o name>>, force, dirty)
    \/ \E removal \in BOOLEAN : ShellReturn(removal)

SpecExit == InitExit /\ [][NextExit]_vars

\* the log ends in an exception that a git command of the gateway raised
VcsRaise(log) ==
    /\ log # << >>
    /\ log[Len(log)] = "raise"
    /\ Len(log) > 1 => log[Len(log) - 1] \in {"worktree_add", "remove"}

\* the log ends in the exit after a logged error
ErrorExit(log) ==
    /\ Len(log) > 1
    /\ log[Len(log)] = "exit" /\ log[Len(log) - 1] = "error"

\* the last removal a run of remove attempted failed
RemoveFailed(wts, report) ==
    /\ report.log # << >>
    /\ LET n == Len(report.log)
           earlier == {report.log[i] : i \in 1..(n - 1)}
       IN  RemovalFails(SelectSeq(wts, LAMBDA e : e.path \notin earlier),
                        report, report.log[n])

\* how the command that ended with this step went: "ok", "resolution" for
\* a name or last location that does not resolve, "vcs" for a git command
\* that failed, "other" for any other exception, "running" when no command
\* of the four ended
Outcome ==
    IF out'.cmd = "worktree.add"
    THEN IF Len(worktrees') > Len(worktrees) THEN "ok" ELSE "vcs"
    ELSE IF out'.cmd = "remove"
    THEN IF RemoveFailed(worktrees, out') THEN "vcs" ELSE "ok"
    ELSE IF out'.cmd = "switch" \/ (out'.cmd = "worktree.shell" /\ frame'.pc = "none")
    THEN IF VcsRaise(out'.log) THEN "vcs"
         ELSE IF ErrorExit(out'.log) THEN "resolution"
         ELSE IF out'.log[Len(out'.log)] = "raise" THEN "other"
         ELSE "ok"
    ELSE "running"

\* C23 as stated: success ends with exit code 0, a resolution failure with
\* 1, a failed git command with the exit code of that command.
C23_VcsFailurePropagatesExitCode ==
    [][/\ Outcome = "ok" => out'.exit = 0
       /\ Outcome = "resolution" => out'.exit = 1
       /\ Outcome = "vcs" => out'.exit = GitFailureCode]_vars

\* C23: success ends with exit code 0; a resolution failure and a failed
\* git command both end with exit code 1, whatever the exit code of git.
C23_EveryFailureExitsOne ==
    [][/\ Outcome = "ok" => out'.exit = 0
       /\ Outcome \in {"resolution", "vcs", "other"} => out'.exit = 1]_vars

\* remove has just failed on a worktree with changes, without --force
C23_Witness ==
    /\ out.cmd = "remove"
    /\ out.exit = 1
    /\ out.cwd = Root
    /\ out.name[1] \in out.dirty /\ ~out.force
    /\ out.name[1] \in Paths(worktrees)

----------------------------------------------------------------------------
(* switch of cli/commands/worktree.py, statement by statement.             *)

\* the loop over git.worktree_list(): where the invocation stands after it
switch_resolve(bare, wts, dir, name) ==
    IF dir = Outside
    THEN [pc |-> "Raised", dest |-> None]
    ELSE IF first_on_branch(worktree_list(bare, wts), name) # None
    THEN [pc |-> "Found", dest |-> first_on_branch(worktree_list(bare, wts), name)]
    ELSE [pc |-> "NotFound", dest |-> None]

\* a mutant of switch_decide: the create flag is not looked at
switch_decide_creates(create) == "CreateRequested"

\* "if dest is None: if not create: ... sys.exit(1)"
switch_decide(create) == IF create THEN "CreateRequested" ELSE "Rejected"

\* "dest, _ = git.worktree_add(name, start_point=start_point)"
switch_create(bare, loc, rem, wts, name, start_point, dest_free) ==
    LET added == worktree_add(bare, loc, rem, wts, name, None, start_point, dest_free)
    IN  [pc |-> IF added.ok THEN "Created" ELSE "Failed", dest |-> added.dest,
         local |-> added.local, worktrees |-> added.worktrees]

\* the last statements of an invocation and the end of its process
switch_end(fr, dir, loc, wts) ==
    IF fr.pc \in {"Found", "Created"}
        \/ (fr.pc = "Dash" /\ fr.config.last_worktree # None)
    THEN switch_done(fr.config, dir,
                     IF fr.pc = "Dash" THEN fr.config.last_worktree ELSE fr.dest,
                     fr.log, loc, wts)
    ELSE switch_failed(fr.config, fr.log, loc, wts)

\* pygwt switch NAME [-c] is started in dir: Registry(), then the test for "-"
SwitchStart(dir, name, create, dest_free) ==
    /\ frame.pc = "none"
    /\ cwd' = dir
    /\ frame' = [pc |-> IF name = Dash THEN "Dash" ELSE "Resolving",
                 name |-> name, create |-> create, dest_free |-> dest_free,
                 config |-> RegistryLoad(registry_file), dest |-> None,
                 log |-> << >>]
    /\ UNCHANGED <<is_bare, remote, local, worktrees, registry_file, wt_last, wt_registry,
                   switch_module, environ, procs, out>>

\* the listing is searched for the name
SwitchResolve ==
    /\ frame.pc = "Resolving"
    /\ LET r == switch_resolve(is_bare, worktrees, cwd, frame.name)
       IN  frame' = [frame EXCEPT !.pc = r.pc, !.dest = r.dest,
                                  !.log = Append(@, r.pc)]
    /\ UNCHANGED <<is_bare, remote, local, worktrees, cwd, registry_file, wt_last,
                   wt_registry, switch_module, environ, procs, out>>

\* no worktree has the name checked out: the create flag decides
SwitchDecide ==
    /\ frame.pc = "NotFound"
    /\ frame' = [frame EXCEPT !.pc = switch_decide(frame.create),
                              !.log = Append(@, switch_decide(frame.create))]
    /\ UNCHANGED <<is_bare, remote, local, worktrees, cwd, registry_file, wt_last,
                   wt_registry, switch_module, environ, procs, out>>

\* the worktree is added, or git.worktree_add raises
SwitchCreate ==
    /\ frame.pc = "CreateRequested"
    /\ LET r == switch_create(is_bare, local, remote, worktrees, frame.name, None,
                              frame.dest_free)
       IN  /\ frame' = [frame EXCEPT !.pc = r.pc, !.dest = r.dest,
                                     !.log = Append(@, r.pc)]
           /\ local' = r.local
           /\ worktrees' = IF r.pc = "Created" THEN r.worktrees ELSE worktrees
    /\ UNCHANGED <<is_bare, remote, cwd, registry_file, wt_last, wt_registry,
                   switch_module, environ, procs, out>>

\* the invocation ends: the path is echoed and last_worktree set, or the
\* process exits with 1; the atexit hook writes the registry
SwitchEnd ==
    /\ frame.pc \in {"Dash", "Found", "Rejected", "Created", "Failed", "Raised"}
    /\ LET r == switch_end(frame, cwd, local, worktrees)
       IN  /\ registry_file' = RegistrySave(r.registry)
           /\ out' = Report("switch", frame.name, None, frame.create, cwd,
                            r.exit, r.echo, r.log)
    /\ frame' = NoFrame
    /\ UNCHANGED <<is_bare, remote, local, worktrees, cwd, wt_last, wt_registry,
                   switch_module, environ, procs>>

InitSwitchSteps == InitRemove

SwitchStepsRun == SwitchResolve \/ SwitchDecide \/ SwitchCreate \/ SwitchEnd

NextSwitchSteps ==
    \/ \E dir \in {Root, Outside}, name \in SwitchArgs \cup {Dash},
          create \in BOOLEAN, dest_free \in BOOLEAN :
          SwitchStart(dir, name, create, dest_free)
    \/ SwitchResolve
    \/ SwitchDecide
    \/ SwitchCreate
    \/ SwitchEnd

\* a started invocation runs on: every statement and gateway call returns
SpecSwitchSteps ==
    InitSwitchSteps /\ [][NextSwitchSteps]_vars /\ WF_vars(SwitchStepsRun)

\* the states an invocation ends in once it has resolved the name
SwitchFinal == {"Found", "Rejected", "Created", "Failed"}

\* the transitions of the lifecycle state machine
SwitchTransitions ==
    { <<"Resolving", "Found">>, <<"Resolving", "NotFound">>,
      <<"NotFound", "CreateRequested">>, <<"NotFound", "Rejected">>,
      <<"CreateRequested", "Created">>, <<"CreateRequested", "Failed">> }

\* C24 as stated: every invocation moves along the transitions of the state
\* machine only and ends in Found, Rejected, Created or Failed.
C24_EveryInvocationEndsInFinalState ==
    [][/\ (frame.pc \notin {"none"} /\ frame'.pc \notin {"none", frame.pc})
            => <<frame.pc, frame'.pc>> \in SwitchTransitions
       /\ (frame.pc # "none" /\ frame'.pc = "none") => frame.pc \in SwitchFinal]_vars

\* the invocation is for a name and its listing of the worktrees succeeds
Resolves == frame.pc # "none" /\ frame.name # Dash /\ cwd # Outside

\* C24: an invocation for a name other than "-" whose worktree listing
\* succeeds moves along the transitions of the state machine only;
\* CreateRequested is reached only with create set and no listed worktree on
\* the name; the invocation eventually reaches exactly one of Found,
\* Rejected, Created, Failed and ends from there. An invocation for "-"
\* resolves nothing and one whose listing fails ends from Resolving.
C24_ResolvingInvocationEndsInFinalState ==
    /\ [][/\ (Resolves /\ frame'.pc \notin {"none", frame.pc})
               => <<frame.pc, frame'.pc>> \in SwitchTransitions
          /\ (Resolves /\ frame'.pc = "none") => frame.pc \in SwitchFinal
          /\ (frame.pc # "none" /\ frame'.pc = "CreateRequested")
               => /\ frame.create
                  /\ first_on_branch(worktree_list(is_bare, worktrees), frame.name) = None
          /\ (frame.pc # "none" /\ ~Resolves /\ frame'.pc # frame.pc)
               => /\ frame.pc \in {"Dash", "Resolving", "Raised"}
                  /\ frame'.pc \in {"Raised", "none"}]_vars
    /\ (Resolves /\ frame.pc = "Resolving") ~> (frame.pc \in SwitchFinal)
    /\ (frame.pc # "none") ~> (frame.pc = "none")

\* an invocation with create set has added the worktree and not yet ended
C24_Witness ==
    /\ frame.pc = "Created"
    /\ frame.log = <<"NotFound", "CreateRequested", "Created">>
    /\ frame.dest \in Paths(worktrees)

----------------------------------------------------------------------------
(* The branch catalog on its own: Repository.get_branch called directly.   *)

InitBranch ==
    /\ InitRepository
    /\ worktrees = << >>
    /\ cwd = Root
    /\ registry_file = NoFile
    /\ wt_last = None
    /\ wt_registry = None
    /\ environ = None /\ frame = NoFrame /\ procs = NoProcs
    /\ switch_module = "switch"
    /\ out = Idle

GetBranch(name, start_point, create) ==
    LET r == get_branch(local, remote, name, start_point, create) IN
    /\ local' = r.local
    /\ out' = Report("get_branch", name, start_point, create, cwd,
                     IF r.ok THEN 0 ELSE 1, r.branch, <<r.how>>)
    /\ UNCHANGED <<is_bare, remote, worktrees, cwd, registry_file, wt_last, wt_registry, switch_module, environ, frame, procs>>

NextBranch ==
    \E name \in BranchArgs, start_point \in StartPoints, create \in BOOLEAN :
        GetBranch(name, start_point, create)

SpecBranch == InitBranch /\ [][NextBranch]_vars

\* the step just taken was a call of get_branch
GetBranchStep == out'.cmd = "get_branch"

\* C7: for every branch b that exists locally, get_branch(b, any start
\* point) returns b and mutates nothing: no branch is created and no
\* existing branch changes its target or its upstream.
C7_LocalBranchReturnedUnchanged ==
    [][ (GetBranchStep /\ out'.name \in DOMAIN local)
        => (out'.exit = 0 /\ out'.echo = out'.name /\ local' = local) ]_vars

C7_Witness ==
    /\ out.cmd = "get_branch" /\ out.log = <<"local">>
    /\ out.start_point # None /\ out.create
    /\ <<"origin">> \o out.name \in DOMAIN remote

\* C8: for every b absent locally but present as origin/b, get_branch(b)
\* creates exactly one local branch, named b, whose upstream is origin/b,
\* and a second call with the same b creates nothing further.
C8_TrackingBranchCreatedOnce ==
    [][ (GetBranchStep /\ out'.name \notin DOMAIN local
                       /\ <<"origin">> \o out'.name \in DOMAIN remote)
        => LET b == out'.name IN
           /\ out'.exit = 0 /\ out'.echo = b
           /\ DOMAIN local' = DOMAIN local \cup {b}
           /\ \A x \in DOMAIN local : local'[x] = local[x]
           /\ local'[b].upstream = <<"origin">> \o b
           /\ \A sp \in StartPoints, create \in BOOLEAN :
                 get_branch(local', remote, b, sp, create).local = local' ]_vars

C8_Witness ==
    /\ out.cmd = "get_branch" /\ out.log = <<"remote">>
    /\ out.name \in DOMAIN local
    /\ local[out.name].upstream = <<"origin">> \o out.name

\* C9 as stated: whenever some remote (any remote) has a branch whose name
\* after the first "/" is name, or whose full remote/name form is name, and
\* no local branch name exists, a local branch tracking that remote branch
\* is created, never a fresh untracked one.
C9_AnyRemoteIsTracked ==
    [][ (GetBranchStep /\ out'.create /\ out'.name \notin DOMAIN local
                       /\ RemoteMatches(remote, out'.name) # {})
        => /\ out'.name \in DOMAIN local'
           /\ local'[out'.name].upstream \in RemoteMatches(remote, out'.name) ]_vars

\* C9 amended: only the remote origin is looked up, under origin/<name>.
\* When origin/name exists and no local branch name does, a local branch
\* tracking origin/name is created, never a fresh untracked one; a branch
\* that only another remote holds, or a name given in its full remote/name
\* form, is never tracked.
C9_OriginIsTracked ==
    [][ (GetBranchStep /\ out'.name \notin DOMAIN local)
        => LET b == out'.name
               tracked == <<"origin">> \o b IN
           IF tracked \in DOMAIN remote
           THEN /\ out'.log = <<"remote">>
                /\ b \in DOMAIN local'
                /\ local'[b] = [target |-> remote[tracked], upstream |-> tracked]
           ELSE /\ out'.log # <<"remote">>
                /\ b \in DOMAIN local' => local'[b].upstream = None ]_vars

C9_Witness ==
    /\ out.cmd = "get_branch" /\ out.log = <<"remote">>
    /\ <<"upstream">> \o out.name \in DOMAIN remote
    /\ local[out.name].upstream = <<"origin">> \o out.name

\* C10 as stated: for every b absent locally and on every remote,
\* get_branch(b, start_point=s, create) creates the local branch b at the
\* commit of s, or at the commit of the current HEAD when s is omitted, with
\* no upstream.
C10_CreatedAtStartPointOrHead ==
    [][ (GetBranchStep /\ out'.create /\ out'.name \notin DOMAIN local
                       /\ RemoteMatches(remote, out'.name) = {}
                       /\ (out'.start_point # None
                              => resolve_refish(local, remote, out'.start_point) # NoCommit))
        => LET b == out'.name IN
           /\ b \in DOMAIN local'
           /\ local'[b].upstream = None
           /\ local'[b].target =
                 IF out'.start_point = None
                 THEN (IF HeadBranch \in DOMAIN local
                       THEN local[HeadBranch].target ELSE NoCommit)
                 ELSE resolve_refish(local, remote, out'.start_point) ]_vars

\* C10 amended: the new branch is created, without upstream, at the commit
\* of s or, when s is omitted, at the commit of HEAD, or at the commit of
\* origin/HEAD when HEAD does not resolve (an empty bare clone); when the
\* commit cannot be resolved no branch is created and the call fails.
C10_CreatedAtStartPointHeadOrOriginHead ==
    [][ (GetBranchStep /\ out'.create /\ out'.name \notin DOMAIN local
                       /\ RemoteMatches(remote, out'.name) = {})
        => LET b == out'.name
               s == out'.start_point
               commit ==
                 IF s # None THEN resolve_refish(local, remote, s)
                 ELSE IF HeadBranch \in DOMAIN local THEN local[HeadBranch].target
                 ELSE IF <<"origin", "HEAD">> \in DOMAIN remote
                      THEN remote[<<"origin", "HEAD">>]
                 ELSE NoCommit IN
           IF commit = NoCommit
           THEN local' = local /\ out'.exit = 1
           ELSE /\ out'.exit = 0 /\ out'.echo = b
                /\ DOMAIN local' = DOMAIN local \cup {b}
                /\ local'[b] = [target |-> commit, upstream |-> None] ]_vars

\* a fresh branch was created from origin/HEAD in a clone without local HEAD
C10_Witness ==
    /\ out.cmd = "get_branch" /\ out.log = <<"create">>
    /\ out.start_point = None
    /\ HeadBranch \notin DOMAIN local
    /\ local[out.name] = [target |-> remote[<<"origin", "HEAD">>], upstream |-> None]

====
